---- MODULE Spec2Model ----
(***************************************************************************)
(* Content originality engine of cine-craft: the uniqueness service        *)
(* (fingerprint history, checkUniqueness, ensureUniqueness) and the        *)
(* duplicate detector (detect passes, deduplicateResults, originality      *)
(* report), the variant selector and the similarity functions.             *)
(*                                                                         *)
(* Text is a sequence of one-character strings.  TLA+ strings are ASCII,   *)
(* so a non-ASCII character is written as an ASCII token and CharCode      *)
(* gives its UTF-16 code unit:                                             *)
(*   "PERIOD" U+3002  "EXCL" U+FF01  "COMMA" U+FF0C  "QUES" U+FF1F         *)
(*   "SHI" U+662F                                                          *)
(*   "WO" U+6211  "JUE" U+89C9  "DE" U+5F97    (the phrase U+6211 89C9 5F97)*)
(*   "SHUO" U+8BF4 "SHI2" U+5B9E "HUA" U+8BDD  (the phrase U+8BF4 5B9E 8BDD)*)
(*   "YI" U+4E00  "GE" U+4E2A                  (the stop word U+4E00 4E2A) *)
(*   "DUN" U+3001  "SEMI" U+FF1B  "COLON" U+FF1A  "LPAREN" U+FF08           *)
(*   "RPAREN" U+FF09  "LBRACK" U+3010  "RBRACK" U+3011                      *)
(*   "LS" U+2028  "PS" U+2029                  (line terminators)           *)
(*   "RANG" U+8BA9  "KE" U+53EF  "YI3" U+4EE5  "YOU" U+6709  "ZAI" U+5728   *)
(*   "YIN" U+56E0  "WEI" U+4E3A  "YOU2" U+7531  "YU" U+4E8E  "DAN" U+4F46   *)
(*   "RAN" U+7136  "ER" U+800C  "QIE" U+4E14  "BING" U+5E76  "RU" U+5982    *)
(*   "GUO" U+679C  "JIA" U+5047                                             *)
(*   the phrases of addRandomness:                                         *)
(*   "DA" U+5927 "JIA2" U+5BB6 "HAO" U+597D "JIN" U+4ECA "TIAN" U+5929     *)
(*   "HUAN" U+6B22 "YING" U+8FCE "LAI" U+6765 "DAO" U+5230 "BEN" U+672C    *)
(*   "QI" U+671F "MEN" U+4EEC "LIAO" U+804A "ZHE" U+8FD9 "NEI" U+5185      *)
(*   "RONG" U+5BB9 "YAO" U+8981 "TAN" U+63A2 "TAO" U+8BA8 "JIE" U+63A5     *)
(*   "XIA" U+4E0B "HOU" U+540E "SUI" U+968F "ZHE2" U+7740 "FEI" U+975E     *)
(*   "CHANG" U+5E38 "ZHONG" U+91CD "ZHI" U+503C "ZHU" U+6CE8 "YI4" U+610F  *)
(*   "GUAN" U+5173 "JIAN" U+952E "HE" U+6838 "XIN" U+5FC3 "DIAN" U+70B9    *)
(*   "ZONG" U+603B "JIE2" U+7ED3 "DE2" U+7684 "GUI" U+5F52 "NA" U+7EB3     *)
(*   "QI3" U+8D77 "ZONG2" U+7EFC "SHANG" U+4E0A "SUO" U+6240 "SHU" U+8FF0  *)
(*   "NI" U+4F60  "GE4" U+5404  "WEI4" U+4F4D     (perspective_shift)       *)
(***************************************************************************)
EXTENDS Integers, Sequences, FiniteSets, TLC

(***************************************************************************)
(* Bounds of the model.                                                    *)
(***************************************************************************)
MaxHistory == 2
MaxAttempts == 2

(***************************************************************************)
(* Characters.                                                             *)
(***************************************************************************)
CharCode(ch) ==
  CASE ch = " " -> 32
    [] ch = "\n" -> 10
    [] ch = "!" -> 33
    [] ch = "-" -> 45
    [] ch = ":" -> 58
    [] ch = "<" -> 60
    [] ch = ">" -> 62
    [] ch = "@" -> 64
    [] ch = "A" -> 65
    [] ch = "B" -> 66
    [] ch = "a" -> 97
    [] ch = "b" -> 98
    [] ch = "c" -> 99
    [] ch = "e" -> 101
    [] ch = "i" -> 105
    [] ch = "r" -> 114
    [] ch = "t" -> 116
    [] ch = "w" -> 119
    [] ch = "PERIOD" -> 12290
    [] ch = "EXCL" -> 65281
    [] ch = "COMMA" -> 65292
    [] ch = "QUES" -> 65311
    [] ch = "YI" -> 19968
    [] ch = "GE" -> 20010
    [] ch = "SHI2" -> 23454
    [] ch = "DE" -> 24471
    [] ch = "WO" -> 25105
    [] ch = "SHI" -> 26159
    [] ch = "JUE" -> 35273
    [] ch = "SHUO" -> 35828
    [] ch = "HUA" -> 35805

\* String.prototype.toLowerCase, per character
ToLower(ch) ==
  CASE ch = "A" -> "a"
    [] ch = "B" -> "b"
    [] OTHER -> ch

toLowerCase(s) == [i \in 1..Len(s) |-> ToLower(s[i])]

\* \s of a regular expression
IsSpace(ch) == ch \in {" ", "\n"}

\* the class [\u4e00-\u9fa5a-zA-Z0-9] of extractKeywords
IsWordChar(ch) ==
  LET c == CharCode(ch)
  IN  \/ (c >= 19968 /\ c <= 40869)
      \/ (c >= 97 /\ c <= 122)
      \/ (c >= 65 /\ c <= 90)
      \/ (c >= 48 /\ c <= 57)

Range(s) == {s[i] : i \in 1..Len(s)}

(***************************************************************************)
(* generateHash: 32-bit rolling hash of the lower-cased content without    *)
(* white space, absolute value, in hexadecimal.                            *)
(***************************************************************************)
\* A 32-bit integer is the pair <<hi, lo>> of its 16-bit halves (two's
\* complement).  One round of the loop: hash = ((hash << 5) - hash) + char,
\* then hash & hash, that is (31 * hash + char) modulo 2^32.
HashStep(hash, code) ==
  LET lo == 31 * hash[2] + code
      hi == 31 * hash[1] + (lo \div 65536)
  IN  << hi % 65536, lo % 65536 >>

\* the loop over the characters; the test on hash is always false and makes
\* the running value be evaluated in each round
RECURSIVE HashLoop(_, _, _)
HashLoop(normalized, i, hash) ==
  IF i > Len(normalized) \/ hash \notin Seq(Nat) THEN hash
  ELSE HashLoop(normalized, i + 1, HashStep(hash, CharCode(normalized[i])))

\* Math.abs of the 32-bit value, again as halves (2^31 for -2^31)
Abs32(hash) ==
  IF hash[1] < 32768 THEN hash
  ELSE IF hash[2] = 0 THEN << 65536 - hash[1], 0 >>
  ELSE << 65535 - hash[1], 65536 - hash[2] >>

HexDigit(d) == SubSeq(<<"0","1","2","3","4","5","6","7","8","9","a","b","c","d","e","f">>, d + 1, d + 1)

RECURSIVE ToHex(_)
ToHex(n) == IF n < 16 THEN HexDigit(n) ELSE ToHex(n \div 16) \o HexDigit(n % 16)

\* the four hexadecimal digits of a low half that follows a non-zero high half
Hex4(n) ==
  HexDigit(n \div 4096) \o HexDigit((n \div 256) % 16)
    \o HexDigit((n \div 16) % 16) \o HexDigit(n % 16)

\* Number.prototype.toString(16)
ToString16(value) ==
  IF value[1] = 0 THEN ToHex(value[2]) ELSE ToHex(value[1]) \o Hex4(value[2])

generateHash(content) ==
  LET NotSpace(ch) == ~IsSpace(ch)
      normalized == SelectSeq(toLowerCase(content), NotSpace)
  IN  ToString16(Abs32(HashLoop(normalized, 1, <<0, 0>>)))

(***************************************************************************)
(* extractKeywords: words of two or more characters, stop words excluded,  *)
(* by descending frequency (stable: ties keep first-occurrence order),     *)
(* the first MaxKeywords of them.                                          *)
(***************************************************************************)
MaxKeywords == 20
MinWordLength == 2

StopWords ==
  { <<"YI", "GE">> }

\* .replace(/[^...]/g, ' ').split(/\s+/): the maximal runs of word characters
RECURSIVE SplitWords(_, _, _)
SplitWords(s, i, cur) ==
  IF i > Len(s) THEN (IF cur = <<>> THEN <<>> ELSE <<cur>>)
  ELSE IF IsWordChar(s[i]) THEN SplitWords(s, i + 1, Append(cur, s[i]))
  ELSE (IF cur = <<>> THEN <<>> ELSE <<cur>>) \o SplitWords(s, i + 1, <<>>)

Occurrences(ws, w) == Cardinality({i \in 1..Len(ws) : ws[i] = w})

\* the keys of wordCount in insertion order
RECURSIVE DistinctWords(_, _)
DistinctWords(ws, seen) ==
  IF ws = <<>> THEN <<>>
  ELSE IF Head(ws) \in seen THEN DistinctWords(Tail(ws), seen)
  ELSE <<Head(ws)>> \o DistinctWords(Tail(ws), seen \cup {Head(ws)})

\* Array.prototype.sort((a, b) => b[1] - a[1]): stable, descending count
RECURSIVE InsertByCount(_, _, _)
InsertByCount(sorted, w, ws) ==
  IF sorted = <<>> THEN <<w>>
  ELSE IF Occurrences(ws, Head(sorted)) >= Occurrences(ws, w)
       THEN <<Head(sorted)>> \o InsertByCount(Tail(sorted), w, ws)
       ELSE <<w>> \o sorted

RECURSIVE SortByCount(_, _, _)
SortByCount(entries, sorted, ws) ==
  IF entries = <<>> THEN sorted
  ELSE SortByCount(Tail(entries), InsertByCount(sorted, Head(entries), ws), ws)

extractKeywords(content) ==
  LET LongEnough(w) == Len(w) >= MinWordLength
      NotStop(w) == w \notin StopWords
      words == SelectSeq(SplitWords(toLowerCase(content), 1, <<>>), LongEnough)
      kept == SelectSeq(DistinctWords(words, {}), NotStop)
      ranked == SortByCount(kept, <<>>, words)
  IN  SubSeq(ranked, 1, IF Len(ranked) < MaxKeywords THEN Len(ranked) ELSE MaxKeywords)

(***************************************************************************)
(* generateStructureSignature: one descriptor "type:length:sentences" per  *)
(* segment, joined by "|".  A descriptor is the triple of its fields; the  *)
(* joined string is the sequence of descriptors.                           *)
(***************************************************************************)
IsSentenceEnd(ch) == ch \in {"PERIOD", "EXCL", "QUES"}

\* content.split(/[...]/).length
SentenceCount(content) ==
  Cardinality({i \in 1..Len(content) : IsSentenceEnd(content[i])}) + 1

SegmentDescriptor(s) == <<s.type, Len(s.content), SentenceCount(s.content)>>

generateStructureSignature(script) ==
  [i \in 1..Len(script.segments) |-> SegmentDescriptor(script.segments[i])]

\* structure.split('|'): the empty string splits into one empty part
SplitStructure(structure) ==
  IF structure = <<>> THEN << <<>> >> ELSE structure

FingerprintOfSegments(script) ==
  [ scriptId  |-> script.id,
    hash      |-> generateHash(script.segments[1].content),
    keywords  |-> extractKeywords(script.content),
    structure |-> generateStructureSignature(script) ]

FingerprintOf(script) ==
  [ scriptId  |-> script.id,
    hash      |-> generateHash(script.content),
    keywords  |-> extractKeywords(script.content),
    structure |-> generateStructureSignature(script) ]

(***************************************************************************)
(* The scripts of the model.  aaBB has the hash of aabb (similarity 1);    *)
(* aSplit is at similarity 0.3 from both (half of the keywords, another    *)
(* structure); ccSame shares only the structure of aabb (0.4) and nothing  *)
(* with aSplit (0).                                                        *)
(***************************************************************************)
Segment(id, type, content) == [id |-> id, type |-> type, content |-> content]

Scripts ==
  { [ id |-> "aabb", content |-> <<"a","a"," ","b","b">>,
      segments |-> << Segment("g1", "narration", <<"a","a"," ","b","b">>) >> ],
    [ id |-> "aaBB", content |-> <<"A","a"," ","B","b">>,
      segments |-> << Segment("g1", "narration", <<"A","a">>),
                      Segment("g2", "narration", <<" ","B","b">>) >> ],
    [ id |-> "aSplit", content |-> <<"a","a">>,
      segments |-> << Segment("g1", "narration", <<"a">>),
                      Segment("g2", "dialogue", <<"a">>) >> ],
    [ id |-> "ccSame", content |-> <<"c","c"," ","c","c">>,
      segments |-> << Segment("g1", "narration", <<"c","c"," ","c","c">>) >> ] }

\* the content of aabb submitted again as another script: another id,
\* other segments
Resubmitted ==
  { [ id |-> "aabbAgain", content |-> <<"a","a"," ","b","b">>,
      segments |-> << Segment("g1", "dialogue", <<"a","a">>),
                      Segment("g2", "narration", <<"b","b">>) >> ] }

AllScripts == Scripts \cup Resubmitted

\* generateFingerprint on the scripts of the model, computed once
Fingerprints == [script \in AllScripts |-> FingerprintOf(script)]

generateFingerprint(script) ==
  IF script \in AllScripts THEN Fingerprints[script] ELSE FingerprintOf(script)

(***************************************************************************)
(* Similarities are exact fractions num/den; 0/0 is the NaN that the       *)
(* division of two empty keyword sets produces.                            *)
(***************************************************************************)
Ratio(n, d) == [num |-> n, den |-> d]

IsNaN(r) == r.den = 0

calculateKeywordSimilarity(keywords1, keywords2) ==
  LET set1 == Range(keywords1)
      set2 == Range(keywords2)
  IN  Ratio(Cardinality(set1 \cap set2), Cardinality(set1 \cup set2))

calculateStructureSimilarityOfPrefix(structure1, structure2) ==
  LET parts1 == SplitStructure(structure1)
      parts2 == SplitStructure(structure2)
      shorter == IF Len(parts1) < Len(parts2) THEN Len(parts1) ELSE Len(parts2)
  IN  Ratio(Cardinality({i \in 1..shorter : parts1[i] = parts2[i]}), Len(parts1))

calculateStructureSimilarity(structure1, structure2) ==
  LET parts1 == SplitStructure(structure1)
      parts2 == SplitStructure(structure2)
  IN  IF Len(parts1) # Len(parts2) THEN Ratio(0, 1)
      ELSE Ratio(Cardinality({i \in 1..Len(parts1) : parts1[i] = parts2[i]}),
                 Len(parts1))

\* keywordSimilarity * 0.6 + structureSimilarity * 0.4
calculateFingerprintSimilarity(fp1, fp2) ==
  IF fp1.hash = fp2.hash THEN Ratio(1, 1)
  ELSE LET k == calculateKeywordSimilarity(fp1.keywords, fp2.keywords)
           t == calculateStructureSimilarity(fp1.structure, fp2.structure)
       IN  Ratio(6 * k.num * t.den + 4 * t.num * k.den, 10 * k.den * t.den)

MeetsThresholdStrict(similarity, threshold) ==
  /\ ~IsNaN(similarity)
  /\ similarity.num * 10 > threshold * similarity.den

\* similarity >= threshold, the threshold in tenths; false for NaN
MeetsThreshold(similarity, threshold) ==
  /\ ~IsNaN(similarity)
  /\ similarity.num * 10 >= threshold * similarity.den

\* similarity >= n/10 in generateUniquenessSuggestions
AtLeastTenths(similarity, n) ==
  ~IsNaN(similarity) /\ similarity.num * 10 >= n * similarity.den

generateUniquenessSuggestions(similarity) ==
  IF AtLeastTenths(similarity, 8) THEN "rewrite-completely"
  ELSE IF AtLeastTenths(similarity, 5) THEN "adjust-paragraphs"
  ELSE "fine-tune"

findDifferences(fp1, fp2) ==
  LET NotInFp2(k) == k \notin Range(fp2.keywords)
  IN  [ newKeywords |-> SelectSeq(fp1.keywords, NotInFp2),
        structureDiffers |-> fp1.structure # fp2.structure ]

NoDifferences == [newKeywords |-> <<>>, structureDiffers |-> FALSE]

\* the for loop of checkUniqueness over the Map in insertion order: the index
\* of the first fingerprint whose similarity meets the threshold, 0 if none
ScanHistoryFirst(fingerprint, fps, i, threshold) ==
  IF fps # << >>
       /\ MeetsThreshold(calculateFingerprintSimilarity(fingerprint, fps[1]), threshold)
  THEN 1 ELSE 0

RECURSIVE ScanHistory(_, _, _, _)
ScanHistory(fingerprint, fps, i, threshold) ==
  IF i > Len(fps) THEN 0
  ELSE IF MeetsThreshold(calculateFingerprintSimilarity(fingerprint, fps[i]), threshold)
       THEN i
       ELSE ScanHistory(fingerprint, fps, i + 1, threshold)

checkUniqueness(script, fps, cfg) ==
  LET fingerprint == generateFingerprint(script)
      hit == IF cfg.checkHistory
             THEN ScanHistory(fingerprint, fps, 1, cfg.similarityThreshold)
             ELSE 0
  IN  IF hit > 0
      THEN LET similarity == calculateFingerprintSimilarity(fingerprint, fps[hit])
           IN  [ isUnique      |-> FALSE,
                 similarity    |-> similarity,
                 matched       |-> hit,
                 matchedScript |-> fps[hit].scriptId,
                 differences   |-> findDifferences(fingerprint, fps[hit]),
                 suggestions   |-> generateUniquenessSuggestions(similarity) ]
      ELSE [ isUnique      |-> TRUE,
             similarity    |-> Ratio(0, 1),
             matched       |-> 0,
             matchedScript |-> "none",
             differences   |-> NoDifferences,
             suggestions   |-> "unique" ]

(***************************************************************************)
(* registerScript: the fingerprint is stored under a fresh key             *)
(* fp_<time>_<random>, so Map.set appends to the Map's insertion order.    *)
(* The history is the sequence of the Map's values in that order.          *)
(***************************************************************************)
registerScriptNowhere(fps, script) == fps

registerScriptOverwriting(fps, script) == << generateFingerprint(script) >>

registerScript(fps, script) == Append(fps, generateFingerprint(script))

saveFingerprintsLatest(fps) ==
  [present |-> TRUE, entries |-> SubSeq(fps, Len(fps), Len(fps))]

\* saveFingerprints: the whole Map goes to the key script_fingerprints
saveFingerprints(fps) == [present |-> TRUE, entries |-> fps]

NoStored == [present |-> FALSE, entries |-> <<>>]

\* the key holds text that JSON.parse rejects
Unparsable == [present |-> TRUE, throws |-> "JSON.parse"]

\* the key holds the text null: JSON.parse returns null, Object.entries throws
NullStored == [present |-> TRUE, throws |-> "Object.entries"]

\* loadFingerprints: nothing stored leaves the Map empty; what throws inside
\* the try leaves a new Map; anything else becomes the Map's entries as parsed
loadFingerprints(st) ==
  IF ~st.present THEN << >>
  ELSE IF "throws" \in DOMAIN st THEN << >>
  ELSE st.entries

NoScript == [id |-> "none", content |-> <<>>, segments |-> <<>>]

\* similarityThreshold in tenths: the default 0.3, and 0.5
Thresholds == {3, 5}

\* addRandomness is read by addRandomness alone; the specification that
\* calls it draws the flag
Configs ==
  [ similarityThreshold : Thresholds,
    checkHistory        : BOOLEAN,
    autoRewrite         : BOOLEAN,
    maxRewriteAttempts  : 0..MaxAttempts,
    addRandomness       : {TRUE} ]

NoResult == [script |-> NoScript, attempts |-> 0, isUnique |-> FALSE]

NoCheck == [op |-> "none"]

(***************************************************************************)
(* The duplicate detector.  A script handed to it has at most MaxSegs      *)
(* segments.                                                               *)
(***************************************************************************)
MaxSegs == 3

\* the punctuation of the class [\s...] that normalizeText deletes
StrippedPunctuation ==
  { "COMMA", "PERIOD", "EXCL", "QUES", "DUN", "SEMI", "COLON", "\"", "'",
    "LPAREN", "RPAREN", "LBRACK", "RBRACK" }

\* text.toLowerCase().replace(/[\s...]/g, '').trim(); nothing is left to trim
normalizeText(text) ==
  SelectSeq(toLowerCase(text),
            LAMBDA ch : ~(IsSpace(ch) \/ ch \in StrippedPunctuation))

Min3(x, y, z) ==
  IF x <= y THEN (IF x <= z THEN x ELSE z) ELSE (IF y <= z THEN y ELSE z)

\* row i of the matrix from row i - 1; row[k] is matrix[i][k - 1]
RECURSIVE LevenshteinRow(_, _, _, _, _)
LevenshteinRow(previous, ch, str2, j, row) ==
  IF j > Len(str2) THEN row
  ELSE LET cost == IF ch = str2[j] THEN 0 ELSE 1
           cell == Min3(previous[j + 1] + 1, row[j] + 1, previous[j] + cost)
       IN  LevenshteinRow(previous, ch, str2, j + 1, Append(row, cell))

RECURSIVE LevenshteinRows(_, _, _, _)
LevenshteinRows(str1, str2, i, previous) ==
  IF i > Len(str1) THEN previous[Len(str2) + 1]
  ELSE LevenshteinRows(str1, str2, i + 1,
                       LevenshteinRow(previous, str1[i], str2, 1, << i >>))

levenshteinDistance(str1, str2) ==
  LevenshteinRows(str1, str2, 1, [k \in 1..(Len(str2) + 1) |-> k - 1])

Max(x, y) == IF x >= y THEN x ELSE y

\* 1 - distance / maxLength; 0/0 when both normalized texts are empty
calculateSimilarity(text1, text2) ==
  LET normalized1 == normalizeText(text1)
      normalized2 == normalizeText(text2)
      distance == levenshteinDistance(normalized1, normalized2)
      maxLength == Max(Len(normalized1), Len(normalized2))
  IN  Ratio(maxLength - distance, maxLength)

\* String.prototype.includes
Includes(text, phrase) ==
  \E i \in 0..(Len(text) - Len(phrase)) :
      SubSeq(text, i + 1, i + Len(phrase)) = phrase

\* a character that . of a regular expression does not match
IsLineTerminator(ch) == ch \in {"\n", "\r", "LS", "PS"}

\* /^(.+?)word(.+?)$/.test(text)
MatchesAround(text, word) ==
  /\ \A k \in 1..Len(text) : ~IsLineTerminator(text[k])
  /\ \E i \in 2..(Len(text) - Len(word)) :
         SubSeq(text, i, i + Len(word) - 1) = word

Feature(present, tag) == IF present THEN << tag >> ELSE << >>

extractStructureFeatures(text) ==
     Feature(MatchesAround(text, << "SHI" >>), "shi-sentence")
  \o Feature(MatchesAround(text, << "RANG" >>), "causative")
  \o Feature(MatchesAround(text, << "KE", "YI3" >>), "possibility")
  \o Feature(MatchesAround(text, << "YOU" >>), "existential")
  \o Feature(MatchesAround(text, << "ZAI" >>), "locative")
  \o Feature(Includes(text, << "YIN", "WEI" >>)
               \/ Includes(text, << "YOU2", "YU" >>), "cause")
  \o Feature(Includes(text, << "DAN", "SHI" >>)
               \/ Includes(text, << "RAN", "ER" >>), "contrast")
  \o Feature(Includes(text, << "ER", "QIE" >>)
               \/ Includes(text, << "BING", "QIE" >>), "progression")
  \o Feature(Includes(text, << "RU", "GUO" >>)
               \/ Includes(text, << "JIA", "RU" >>), "hypothesis")

\* calculateStructureSimilarity of the detectors: intersection.length /
\* union.length of the two feature lists, 0/0 when neither text has a feature
calculateStructureSimilarityOfTexts(text1, text2) ==
  LET features1 == extractStructureFeatures(text1)
      features2 == extractStructureFeatures(text2)
      intersection == SelectSeq(features1, LAMBDA f : f \in Range(features2))
  IN  Ratio(Len(intersection), Cardinality(Range(features1) \cup Range(features2)))

\* similarity >= n/10 of the detectors; false for NaN
ReachesTenths(similarity, n) ==
  ~IsNaN(similarity) /\ similarity.num * 10 >= n * similarity.den

generateSuggestion(similarity) ==
  IF ReachesTenths(similarity, 9) THEN "rewrite-completely"
  ELSE IF ReachesTenths(similarity, 8) THEN "modify-heavily"
  ELSE IF ReachesTenths(similarity, 7) THEN "adjust-wording"
  ELSE "check-originality"

\* the endpoint of a DuplicateResult taken from a segment
Endpoint(segment, content) ==
  [segmentId |-> segment.id, content |-> content, startTime |-> segment.startTime]

\* a DuplicateResult without its id, which is made of the clock and a random
DuplicateResult(type, source, target, similarity, suggestion) ==
  [ type |-> type, source |-> source, target |-> target,
    similarity |-> similarity, suggestion |-> suggestion ]

\* segments.find((s) => s.id === existingId)
FindSegment(segments, id) ==
  segments[CHOOSE i \in 1..Len(segments) :
             /\ segments[i].id = id
             /\ \A k \in 1..(i - 1) : segments[k].id # id]

\* contentMap is the sequence of its entries in insertion order
RECURSIVE ExactLoop(_, _, _, _, _)
ExactLoop(segments, normalize, i, contentMap, duplicates) ==
  IF i > Len(segments) THEN duplicates
  ELSE LET segment == segments[i]
           normalized == normalize[segment.content]
           entries == SelectSeq(contentMap, LAMBDA e : e.key = normalized)
       IN  IF entries # << >>
           THEN LET existing == FindSegment(segments, entries[1].value)
                IN  ExactLoop(segments, normalize, i + 1, contentMap,
                      Append(duplicates,
                        DuplicateResult("exact",
                          Endpoint(existing, existing.content),
                          Endpoint(segment, segment.content),
                          Ratio(1, 1), "delete-or-merge")))
           ELSE ExactLoop(segments, normalize, i + 1,
                  Append(contentMap, [key |-> normalized, value |-> segment.id]),
                  duplicates)

detectExactDuplicatesVerbatim(segments, normalize) ==
  ExactLoop(segments, [text \in DOMAIN normalize |-> text], 1, << >>, << >>)

\* normalizeText is handed over as a function
detectExactDuplicates(segments, normalize) ==
  ExactLoop(segments, normalize, 1, << >>, << >>)

\* the pairs (i, j), i < j <= n, in the order of the two nested loops
RECURSIVE IndexPairs(_, _)
IndexPairs(i, n) ==
  IF i >= n THEN << >>
  ELSE [k \in 1..(n - i) |-> << i, i + k >>] \o IndexPairs(i + 1, n)

\* calculateSimilarity is handed over as a function
detectSemanticDuplicates(segments, threshold, similarityOf) ==
  LET Sim(p) == similarityOf[segments[p[1]].content][segments[p[2]].content]
      hits == SelectSeq(IndexPairs(1, Len(segments)),
                        LAMBDA p : ReachesTenths(Sim(p), threshold))
  IN  [k \in 1..Len(hits) |->
         LET source == segments[hits[k][1]]
             target == segments[hits[k][2]]
         IN  DuplicateResult("similar",
               Endpoint(source, source.content), Endpoint(target, target.content),
               Sim(hits[k]), generateSuggestion(Sim(hits[k])))]

\* the entries of COMMON_PHRASES over the characters of the model, in the
\* order Object.entries visits them
COMMON_PHRASES ==
  << [category |-> "subjective", phrase |-> << "WO", "JUE", "DE" >>],
     [category |-> "subjective", phrase |-> << "SHUO", "SHI2", "HUA" >>] >>

RECURSIVE TemplateLoop(_, _)
TemplateLoop(segments, i) ==
  IF i > Len(segments) THEN << >>
  ELSE LET segment == segments[i]
           found == SelectSeq(COMMON_PHRASES,
                              LAMBDA e : Includes(segment.content, e.phrase))
       IN  [k \in 1..Len(found) |->
              DuplicateResult("template",
                Endpoint(segment, found[k].phrase),
                Endpoint(segment, segment.content),
                Ratio(1, 2), << "template-phrase", found[k].category >>)]
           \o TemplateLoop(segments, i + 1)

detectTemplateContent(segments) == TemplateLoop(segments, 1)

\* calculateStructureSimilarity is handed over as a function
detectStructuralDuplicates(segments, threshold, structureSimilarityOf) ==
  LET Sim(p) == structureSimilarityOf[segments[p[1]].content][segments[p[2]].content]
      hits == SelectSeq(IndexPairs(1, Len(segments)),
                        LAMBDA p : ReachesTenths(Sim(p), threshold))
  IN  [k \in 1..Len(hits) |->
         LET source == segments[hits[k][1]]
             target == segments[hits[k][2]]
         IN  DuplicateResult("similar",
               Endpoint(source, source.content), Endpoint(target, target.content),
               Sim(hits[k]), "vary-sentence-structure")]

\* `${first}-${second}`
ResultKey(first, second) == first \o << "-" >> \o second

SeenKeyOnly(key, reverseKey, seen) == key \in seen

\* seen.has(key) || seen.has(reverseKey)
SeenBefore(key, reverseKey, seen) == key \in seen \/ reverseKey \in seen

RECURSIVE FilterResults(_, _, _, _)
FilterResults(results, i, seen, kept) ==
  IF i > Len(results) THEN kept
  ELSE LET key == ResultKey(results[i].source.segmentId, results[i].target.segmentId)
           reverseKey ==
             ResultKey(results[i].target.segmentId, results[i].source.segmentId)
       IN  IF SeenBefore(key, reverseKey, seen)
           THEN FilterResults(results, i + 1, seen, kept)
           ELSE FilterResults(results, i + 1, seen \cup {key}, Append(kept, results[i]))

deduplicateResults(results) == FilterResults(results, 1, {}, << >>)

\* b.similarity - a.similarity <= 0: a does not sort after b
NotBelow(a, b) ==
  a.similarity.num * b.similarity.den >= b.similarity.num * a.similarity.den

\* Array.prototype.sort is stable: a result goes behind those not below it
RECURSIVE SortBySimilarity(_)
SortBySimilarity(results) ==
  IF results = << >> THEN << >>
  ELSE LET last == results[Len(results)]
           front == SortBySimilarity(SubSeq(results, 1, Len(results) - 1))
           ahead == Cardinality({k \in 1..Len(front) : NotBelow(front[k], last)})
       IN  SubSeq(front, 1, ahead) \o << last >> \o SubSeq(front, ahead + 1, Len(front))

\* the segment contents of the model: two that normalize to the same text, a
\* third one edit away from it, and two that hold phrases of COMMON_PHRASES
SegContents ==
  { << "a", "b", "SHI", "a" >>,
    << "A", "b", " ", "SHI", "a", "COMMA" >>,
    << "a", "b", "SHI", "b" >>,
    << "WO", "JUE", "DE", "a" >>,
    << "WO", "JUE", "DE", "SHUO", "SHI2", "HUA" >> }

\* the segment contents of the scripts handed to autoFix: a text, the text
\* twice with a space between, and another text
FixContents ==
  { << "a" >>, << "a", " ", "a" >>, << "b" >> }

AllContents == SegContents \cup FixContents

\* the text functions over the contents of the model, computed once
NormalizedContents == [text \in AllContents |-> normalizeText(text)]

ContentSimilarities ==
  [text1 \in AllContents |->
     [text2 \in AllContents |-> calculateSimilarity(text1, text2)]]

ContentStructureSimilarities ==
  [text1 \in AllContents |->
     [text2 \in AllContents |-> calculateStructureSimilarityOfTexts(text1, text2)]]

Strategies == {"exact", "semantic", "structural", "template"}

\* threshold in tenths: the default 0.7, and 0.5
DedupThresholds == {7, 5}

DedupConfigs == [strategies : SUBSET Strategies, threshold : DedupThresholds]

\* the configuration the constructor of DedupService sets
DefaultDedupConfig ==
  [strategies |-> {"exact", "semantic", "template"}, threshold |-> 7]

\* the results of the enabled passes, in the order detectDuplicates runs them
DetectedBy(cfg, segments) ==
     (IF "exact" \in cfg.strategies
        THEN detectExactDuplicates(segments, NormalizedContents) ELSE << >>)
  \o (IF "semantic" \in cfg.strategies
        THEN detectSemanticDuplicates(segments, cfg.threshold, ContentSimilarities)
        ELSE << >>)
  \o (IF "template" \in cfg.strategies
        THEN detectTemplateContent(segments) ELSE << >>)
  \o (IF "structural" \in cfg.strategies
        THEN detectStructuralDuplicates(segments, cfg.threshold,
                                        ContentStructureSimilarities)
        ELSE << >>)

detectDuplicates(cfg, segments) ==
  SortBySimilarity(deduplicateResults(DetectedBy(cfg, segments)))

VARIABLES
  config,         \* this.config
  fingerprints,   \* this.fingerprints, in insertion order
  stored,         \* storageService: the key script_fingerprints
  pc,             \* per caller: idle, awaiting (suspended in await rewriteFn), done, rejected
  currentScript,  \* per caller: currentScript of ensureUniqueness
  attempts,       \* per caller: attempts of ensureUniqueness
  result,         \* per caller: the value ensureUniqueness resolved with
  checks,         \* per caller: checkUniqueness calls of the invocation
  rewrites,       \* per caller: rewriteFn calls of the invocation
  registered,     \* per caller: fingerprints the invocation appended
  allMatched,     \* per caller: every check of the invocation found a match
  lastRewrite,    \* per caller: what the latest rewriteFn call returned
  stable,         \* per caller: no updateConfig changed the config since the invocation began
  overlapped,     \* per caller: another caller registered while this one was suspended
  observed,       \* the value returned by the call that just completed
  dedupConfig,    \* this.config of DedupService
  scriptSegments, \* script.segments of the script handed to the detector
  usedVariants,   \* this.usedVariants of dedupVariantService
  received,       \* per caller: the variants selectVariant returned in the caller's cycle
  receivedCount,  \* per caller: the selections of the caller in that cycle
  cycleReturned,  \* the variants returned in the current run of eight selections
  selections,     \* the selections since the selector was fresh or reset
  plain           \* every selection since then was made without exclusions

vars == << config, fingerprints, stored, pc, currentScript, attempts, result,
           checks, rewrites, registered, allMatched, lastRewrite, stable,
           overlapped, observed, dedupConfig, scriptSegments,
           usedVariants, received, receivedCount, cycleReturned, selections, plain >>

serviceVars == << config, fingerprints, stored, pc, currentScript, attempts, result,
                  checks, rewrites, registered, allMatched, lastRewrite, stable,
                  overlapped >>

dedupVars == << dedupConfig, scriptSegments >>

selectorVars == << usedVariants, received, receivedCount, cycleReturned, selections, plain >>

Callers == {"c1"}

\* the service after its constructor ran with the configuration cfg, and the
\* callers that hold it
ConstructedOver(cfg, callers, st) ==
  /\ config = cfg
  /\ fingerprints = loadFingerprints(st)
  /\ stored = st
  /\ pc = [c \in callers |-> "idle"]
  /\ currentScript = [c \in callers |-> NoScript]
  /\ attempts = [c \in callers |-> 0]
  /\ result = [c \in callers |-> NoResult]
  /\ checks = [c \in callers |-> 0]
  /\ rewrites = [c \in callers |-> 0]
  /\ registered = [c \in callers |-> <<>>]
  /\ allMatched = [c \in callers |-> TRUE]
  /\ lastRewrite = [c \in callers |-> NoScript]
  /\ stable = [c \in callers |-> TRUE]
  /\ overlapped = [c \in callers |-> FALSE]
  /\ observed = NoCheck

ConstructedFor(cfg, callers) == ConstructedOver(cfg, callers, NoStored)

Constructed(cfg) == ConstructedFor(cfg, Callers)

\* dedupService as constructed, with no script handed to it
DetectorIdle ==
  /\ dedupConfig = DefaultDedupConfig
  /\ scriptSegments = << >>

SelectorCallers == {"s1"}

\* dedupVariantService as constructed, usedVariants = new Set(), and the
\* callers that import it
SelectorFreshFor(callers) ==
  /\ usedVariants = {}
  /\ received = [c \in callers |-> {}]
  /\ receivedCount = [c \in callers |-> 0]
  /\ cycleReturned = {}
  /\ selections = 0
  /\ plain = TRUE

SelectorFresh == SelectorFreshFor(SelectorCallers)

Init ==
  /\ \E cfg \in Configs : Constructed(cfg)
  /\ DetectorIdle
  /\ SelectorFresh

InFlight == {c \in DOMAIN pc : pc[c] = "awaiting"}

\* room in the bounded history for one more registration: MaxHistory
\* registrations, and one more for each caller beyond the first
RoomToRegister ==
  Len(fingerprints) + Cardinality(InFlight) < MaxHistory + Cardinality(DOMAIN pc) - 1

Appended(old, new) == SubSeq(new, Len(old) + 1, Len(new))

\* while (attempts < this.config.maxRewriteAttempts)
LoopGuardInclusive(att, cfg) == att <= cfg.maxRewriteAttempts

LoopGuard(att, cfg) == att < cfg.maxRewriteAttempts

\* attempts++
NextAttemptsStuck(att) == att

NextAttempts(att) == att + 1

(***************************************************************************)
(* One pass of ensureUniqueness from the loop test to the point where it   *)
(* suspends in await rewriteFn(currentScript) or returns.                  *)
(***************************************************************************)
Finish(c, script, att, unique) ==
  /\ pc' = [pc EXCEPT ![c] = "done"]
  /\ result' = [result EXCEPT ![c] =
                  [script |-> script, attempts |-> att, isUnique |-> unique]]
  /\ currentScript' = [currentScript EXCEPT ![c] = script]
  /\ attempts' = [attempts EXCEPT ![c] = att]

IterateUnder(c, script, att, cfg) ==
  IF LoopGuard(att, cfg)
  THEN LET check == checkUniqueness(script, fingerprints, cfg)
       IN  /\ checks' = [checks EXCEPT ![c] = @ + 1]
           /\ allMatched' = [allMatched EXCEPT ![c] = @ /\ ~check.isUnique]
           /\ IF check.isUnique
              THEN /\ fingerprints' = registerScript(fingerprints, script)
                   /\ stored' = saveFingerprints(fingerprints')
                   /\ registered' = [registered EXCEPT ![c] =
                                       @ \o Appended(fingerprints, fingerprints')]
                   /\ overlapped' = [d \in DOMAIN pc |->
                                       overlapped[d] \/ (d # c /\ pc[d] = "awaiting")]
                   /\ Finish(c, script, att, TRUE)
                   /\ UNCHANGED rewrites
              ELSE IF ~cfg.autoRewrite
              THEN /\ Finish(c, script, att, FALSE)
                   /\ UNCHANGED << fingerprints, stored, registered, rewrites, overlapped >>
              ELSE /\ pc' = [pc EXCEPT ![c] = "awaiting"]
                   /\ attempts' = [attempts EXCEPT ![c] = NextAttempts(att)]
                   /\ currentScript' = [currentScript EXCEPT ![c] = script]
                   /\ rewrites' = [rewrites EXCEPT ![c] = @ + 1]
                   /\ UNCHANGED << fingerprints, stored, registered, result, overlapped >>
  ELSE /\ Finish(c, script, att, FALSE)
       /\ UNCHANGED << fingerprints, stored, registered, checks, rewrites, allMatched,
                       overlapped >>

\* the pass under this.config as it stands when the pass begins
Iterate(c, script, att) == IterateUnder(c, script, att, config)

\* ensureUniqueness(script, rewriteFn) is called
EnsureUniqueness(c, script) ==
  /\ pc[c] = "idle"
  /\ RoomToRegister
  /\ Iterate(c, script, 0)
  /\ observed' = NoCheck
  /\ UNCHANGED << dedupVars, selectorVars >>
  /\ UNCHANGED << config, lastRewrite, stable >>

\* rewriteFn resolves with a script: currentScript = await rewriteFn(currentScript)
RewriteReturns(c, rewritten) ==
  /\ pc[c] = "awaiting"
  /\ lastRewrite' = [lastRewrite EXCEPT ![c] = rewritten]
  /\ Iterate(c, rewritten, attempts[c])
  /\ observed' = NoCheck
  /\ UNCHANGED << dedupVars, selectorVars >>
  /\ UNCHANGED << config, stable >>

\* rewriteFn rejects: nothing catches it, the promise of ensureUniqueness rejects
RewriteFails(c) ==
  /\ pc[c] = "awaiting"
  /\ pc' = [pc EXCEPT ![c] = "rejected"]
  /\ observed' = NoCheck
  /\ UNCHANGED << dedupVars, selectorVars >>
  /\ UNCHANGED << config, fingerprints, stored, currentScript, attempts, result,
                  checks, rewrites, registered, allMatched, lastRewrite, stable,
                  overlapped >>

\* the caller has taken the outcome; it may call again
Settle(c) ==
  /\ pc[c] \in {"done", "rejected"}
  /\ pc' = [pc EXCEPT ![c] = "idle"]
  /\ currentScript' = [currentScript EXCEPT ![c] = NoScript]
  /\ attempts' = [attempts EXCEPT ![c] = 0]
  /\ result' = [result EXCEPT ![c] = NoResult]
  /\ checks' = [checks EXCEPT ![c] = 0]
  /\ rewrites' = [rewrites EXCEPT ![c] = 0]
  /\ registered' = [registered EXCEPT ![c] = <<>>]
  /\ allMatched' = [allMatched EXCEPT ![c] = TRUE]
  /\ lastRewrite' = [lastRewrite EXCEPT ![c] = NoScript]
  /\ stable' = [stable EXCEPT ![c] = TRUE]
  /\ overlapped' = [overlapped EXCEPT ![c] = FALSE]
  /\ observed' = NoCheck
  /\ UNCHANGED << dedupVars, selectorVars >>
  /\ UNCHANGED << config, fingerprints, stored >>

NoCallerStep ==
  UNCHANGED << pc, currentScript, attempts, result, checks, rewrites,
               registered, allMatched, lastRewrite, overlapped >>

\* checkUniqueness(script) called on its own.  The call is synchronous and
\* reads only the configuration and the history; the model makes it between
\* invocations of ensureUniqueness, where every configuration and history that
\* can be reached at all is reached.
CheckUniqueness(script) ==
  /\ \A c \in DOMAIN pc : pc[c] = "idle"
  /\ observed' = [ op |-> "check", script |-> script,
                   check |-> checkUniqueness(script, fingerprints, config) ]
  /\ UNCHANGED << dedupVars, selectorVars >>
  /\ NoCallerStep
  /\ UNCHANGED << config, fingerprints, stored, stable >>

\* registerScript(script) called on its own
RegisterScript(script) ==
  /\ RoomToRegister
  /\ fingerprints' = registerScript(fingerprints, script)
  /\ stored' = saveFingerprints(fingerprints')
  /\ observed' = NoCheck
  /\ UNCHANGED << dedupVars, selectorVars >>
  /\ NoCallerStep
  /\ UNCHANGED << config, stable >>

\* clearHistory()
ClearHistory ==
  /\ fingerprints # <<>>
  /\ fingerprints' = <<>>
  /\ stored' = saveFingerprints(fingerprints')
  /\ observed' = NoCheck
  /\ UNCHANGED << dedupVars, selectorVars >>
  /\ NoCallerStep
  /\ UNCHANGED << config, stable >>

\* updateConfig(partial): the given fields replace the current ones.  The
\* partial configurations of the model set one field; a call that sets several
\* fields is the same as the calls that set them one after the other.
UpdateConfig(newConfig) ==
  /\ Cardinality({f \in DOMAIN config : newConfig[f] # config[f]}) = 1
  /\ config' = newConfig
  /\ stable' = [c \in DOMAIN stable |-> stable[c] /\ pc[c] = "idle"]
  /\ observed' = NoCheck
  /\ UNCHANGED << dedupVars, selectorVars >>
  /\ NoCallerStep
  /\ UNCHANGED << fingerprints, stored >>

Next ==
  \/ \E c \in Callers, script \in Scripts : EnsureUniqueness(c, script)
  \/ \E c \in Callers, rewritten \in Scripts : RewriteReturns(c, rewritten)
  \/ \E c \in Callers : RewriteFails(c)
  \/ \E c \in Callers : Settle(c)
  \/ \E script \in Scripts : CheckUniqueness(script)
  \/ \E script \in Scripts : RegisterScript(script)
  \/ ClearHistory
  \/ \E newConfig \in Configs : UpdateConfig(newConfig)

Spec == Init /\ [][Next]_vars

(***************************************************************************)
(* The service under the configuration it was constructed with, when the  *)
(* rewrite collaborator returns on each call: a suspended invocation is    *)
(* eventually resumed.                                                     *)
(***************************************************************************)
NextReturning ==
  \/ \E c \in Callers, script \in Scripts : EnsureUniqueness(c, script)
  \/ \E c \in Callers, rewritten \in Scripts : RewriteReturns(c, rewritten)
  \/ \E c \in Callers : Settle(c)
  \/ \E script \in Scripts : RegisterScript(script)
  \/ ClearHistory

FairSpec ==
  /\ Init
  /\ [][NextReturning]_vars
  /\ \A c \in Callers : WF_vars(\E rewritten \in Scripts : RewriteReturns(c, rewritten))

(***************************************************************************)
(* Two callers share the service, constructed with its defaults or with    *)
(* another threshold.  Their invocations of ensureUniqueness interleave    *)
(* where one is suspended in await rewriteFn.                              *)
(***************************************************************************)
\* the defaults of the constructor of UniquenessService
DefaultConfig ==
  [ similarityThreshold |-> 3, checkHistory |-> TRUE,
    autoRewrite |-> TRUE, maxRewriteAttempts |-> 3, addRandomness |-> TRUE ]

ConcurrentCallers == {"c1", "c2"}

ConcurrentInit ==
  /\ \E threshold \in Thresholds :
        ConstructedFor([DefaultConfig EXCEPT !.similarityThreshold = threshold],
                       ConcurrentCallers)
  /\ DetectorIdle
  /\ SelectorFresh

ConcurrentNext ==
  \/ \E c \in ConcurrentCallers, script \in Scripts : EnsureUniqueness(c, script)
  \/ \E c \in ConcurrentCallers, rewritten \in Scripts : RewriteReturns(c, rewritten)
  \/ \E c \in ConcurrentCallers : RewriteFails(c)
  \/ \E c \in ConcurrentCallers : Settle(c)

ConcurrentSpec == ConcurrentInit /\ [][ConcurrentNext]_vars

(***************************************************************************)
(* The duplicate detector at work on one script.  The uniqueness service   *)
(* is constructed with its defaults and is not called.                     *)
(***************************************************************************)
\* segment ids are distinct strings; a "-" may occur in them
SegmentId(i) ==
  CASE i = 1 -> << "a" >>
    [] i = 2 -> << "b", "-", "a" >>
    [] i = 3 -> << "a", "-", "b" >>
    [] OTHER -> << "s", ToString(i) >>

SegmentsOf(contents) ==
  [i \in 1..Len(contents) |->
     [id |-> SegmentId(i), content |-> contents[i], startTime |-> i - 1]]

InputSegments ==
  {SegmentsOf(contents) : contents \in UNION {[1..n -> SegContents] : n \in 0..MaxSegs}}

DedupInit ==
  /\ Constructed(DefaultConfig)
  /\ dedupConfig = DefaultDedupConfig
  /\ scriptSegments \in InputSegments
  /\ SelectorFresh

\* detectDuplicates(script)
DetectDuplicates ==
  /\ observed' = [ op |-> "detect", config |-> dedupConfig,
                   detected |-> DetectedBy(dedupConfig, scriptSegments),
                   duplicates |-> detectDuplicates(dedupConfig, scriptSegments) ]
  /\ UNCHANGED << serviceVars, dedupVars, selectorVars >>

\* new Set(duplicates.map((d) => d.target.segmentId)).size
DuplicateCount(duplicates) ==
  Cardinality({duplicates[k].target.segmentId : k \in 1..Len(duplicates)})

\* Math.round of n/d, d > 0 and n >= 0: halves go up
Round(n, d) == (2 * n + d) \div (2 * d)

\* score < n of generateOriginalityReport; false for NaN
ScoreBelow(score, n) == ~IsNaN(score) /\ score.num < n * score.den

CountOfType(duplicates, type) ==
  Len(SelectSeq(duplicates, LAMBDA d : d.type = type))

\* generateOriginalityReport of the rewriters: the score before rounding is
\* max(0, 100 - duplicateCount / totalSegments * 100), 0/0 giving NaN
generateOriginalityReport(segments, duplicates) ==
  LET totalSegments == Len(segments)
      duplicateCount == DuplicateCount(duplicates)
      score == IF totalSegments = 0 THEN Ratio(0, 0)
               ELSE Ratio(Max(0, 100 * totalSegments - 100 * duplicateCount),
                          totalSegments)
      templateCount == CountOfType(duplicates, "template")
      exactCount == CountOfType(duplicates, "exact")
  IN  [ score |-> IF IsNaN(score) THEN score
                  ELSE Ratio(Round(score.num, score.den), 1),
        suggestions |->
             (IF ScoreBelow(score, 60) THEN << "originality-low" >>
              ELSE IF ScoreBelow(score, 80) THEN << "originality-fair" >>
              ELSE << >>)
          \o (IF templateCount > 0 THEN << << "template-phrases", templateCount >> >>
              ELSE << >>)
          \o (IF exactCount > 0 THEN << << "exact-duplicates", exactCount >> >>
              ELSE << >>) ]

\* DedupService.generateOriginalityReport(script)
GenerateOriginalityReport ==
  LET duplicates == detectDuplicates(dedupConfig, scriptSegments)
      report == generateOriginalityReport(scriptSegments, duplicates)
  IN  /\ observed' = [ op |-> "report", config |-> dedupConfig,
                       report |-> [ score |-> report.score,
                                    duplicates |-> duplicates,
                                    suggestions |-> report.suggestions ] ]
      /\ UNCHANGED << serviceVars, dedupVars, selectorVars >>

\* a result with its two endpoints exchanged
Exchanged(r) == [r EXCEPT !.source = r.target, !.target = r.source]

\* deduplicateResults(results) called on its own, with a list that holds each
\* detection of the script in both directions
DeduplicateResults ==
  LET detected == DetectedBy(dedupConfig, scriptSegments)
      results == detected \o [k \in 1..Len(detected) |-> Exchanged(detected[k])]
  IN  /\ detected # << >>
      /\ observed' = [ op |-> "dedup", results |-> results,
                       kept |-> deduplicateResults(results) ]
      /\ UNCHANGED << serviceVars, dedupVars, selectorVars >>

\* strategies that are in one of the two lists only
Toggled(strategies1, strategies2) ==
  (strategies1 \ strategies2) \cup (strategies2 \ strategies1)

\* updateConfig(partial) of DedupService.  The partials of the model set the
\* threshold, or a list of strategies with one strategy more or less; a call
\* that changes more is the same as these calls one after the other.
UpdateDedupConfig(newConfig) ==
  /\ \/ /\ newConfig.threshold # dedupConfig.threshold
        /\ newConfig.strategies = dedupConfig.strategies
     \/ /\ newConfig.threshold = dedupConfig.threshold
        /\ Cardinality(Toggled(newConfig.strategies, dedupConfig.strategies)) = 1
  /\ dedupConfig' = newConfig
  /\ observed' = NoCheck
  /\ UNCHANGED << serviceVars, scriptSegments, selectorVars >>

DedupNext ==
  \/ DetectDuplicates
  \/ GenerateOriginalityReport
  \/ DeduplicateResults
  \/ \E newConfig \in DedupConfigs : UpdateDedupConfig(newConfig)

DedupSpec == DedupInit /\ [][DedupNext]_vars

(***************************************************************************)
(* The variant selector.  One instance, dedupVariantService, is exported   *)
(* by the module and every caller uses it.                                 *)
(***************************************************************************)
MaxSelections == 10

\* Object.values(DEDUP_VARIANTS): id, intensity in tenths, strategies
DEDUP_VARIANTS ==
  << [ id |-> "conservative", intensity |-> 2,
       strategies |-> << "synonym_replace", "minor_reorder" >> ],
     [ id |-> "balanced", intensity |-> 5,
       strategies |-> << "synonym_replace", "sentence_restructure",
                         "transition_change" >> ],
     [ id |-> "aggressive", intensity |-> 8,
       strategies |-> << "synonym_replace", "sentence_restructure",
                         "paragraph_reorder", "voice_change", "perspective_shift" >> ],
     [ id |-> "creative", intensity |-> 10,
       strategies |-> << "complete_rewrite", "new_examples", "fresh_metaphors",
                         "different_angle" >> ],
     [ id |-> "academic", intensity |-> 6,
       strategies |-> << "formal_vocabulary", "passive_voice", "citation_style",
                         "technical_terms" >> ],
     [ id |-> "casual", intensity |-> 5,
       strategies |-> << "colloquial_phrases", "rhetorical_questions",
                         "personal_pronouns", "contractions" >> ],
     [ id |-> "poetic", intensity |-> 7,
       strategies |-> << "metaphors", "parallelism", "rhythm", "imagery",
                         "emotional_language" >> ],
     [ id |-> "technical", intensity |-> 6,
       strategies |-> << "precise_terminology", "logical_structure",
                         "data_driven", "step_by_step" >> ] >>

VariantIds == {DEDUP_VARIANTS[i].id : i \in 1..Len(DEDUP_VARIANTS)}

AvailableIgnoringUsed(used, exclude) ==
  SelectSeq(DEDUP_VARIANTS, LAMBDA v : v.id \notin exclude)

\* the variants that are neither used nor excluded
Available(used, exclude) ==
  SelectSeq(DEDUP_VARIANTS, LAMBDA v : v.id \notin used /\ v.id \notin exclude)

\* the exclusion lists of the model; selectVariant() is selectVariant of none
Excludes == { {}, {"conservative"} }

\* usedVariants when selectVariant draws: cleared if nothing was available
UsedAtDraw(used, exclude) ==
  IF Available(used, exclude) = << >> THEN {} ELSE used

\* the state of the selector with the records of the model
SelectorState ==
  [ usedVariants |-> usedVariants, received |-> received,
    receivedCount |-> receivedCount, cycleReturned |-> cycleReturned,
    selections |-> selections, plain |-> plain ]

\* selectVariant(exclude) by caller c, Math.random picking available[index]
Selected(st, exclude, index) ==
  Available(UsedAtDraw(st.usedVariants, exclude), exclude)[index].id

AfterSelect(st, c, exclude, index) ==
  LET selected == Selected(st, exclude, index)
  IN  [ usedVariants |-> UsedAtDraw(st.usedVariants, exclude) \cup {selected},
        received |->
          [st.received EXCEPT ![c] =
             IF st.receivedCount[c] % Len(DEDUP_VARIANTS) = 0
             THEN {selected} ELSE @ \cup {selected}],
        receivedCount |-> [st.receivedCount EXCEPT ![c] = @ + 1],
        cycleReturned |->
          IF st.selections % Len(DEDUP_VARIANTS) = 0
          THEN {selected} ELSE st.cycleReturned \cup {selected},
        selections |-> st.selections + 1,
        plain |-> st.plain /\ exclude = {} ]

CanSelect(st, c, exclude, index) ==
  /\ st.selections < MaxSelections
  /\ st.receivedCount[c] < MaxSelections
  /\ index \in 1..Len(Available(UsedAtDraw(st.usedVariants, exclude), exclude))

SelectorBecomes(st) ==
  /\ usedVariants' = st.usedVariants
  /\ received' = st.received
  /\ receivedCount' = st.receivedCount
  /\ cycleReturned' = st.cycleReturned
  /\ selections' = st.selections
  /\ plain' = st.plain

\* selectVariant(exclude)
SelectVariant(c, exclude, index) ==
  /\ CanSelect(SelectorState, c, exclude, index)
  /\ SelectorBecomes(AfterSelect(SelectorState, c, exclude, index))
  /\ observed' = [ op |-> "select", caller |-> c,
                   variant |-> Selected(SelectorState, exclude, index) ]
  /\ UNCHANGED << serviceVars, dedupVars >>

\* reset(), called by c, which starts over
ResetSelector(c) ==
  /\ usedVariants' = {}
  /\ received' = [received EXCEPT ![c] = {}]
  /\ receivedCount' = [receivedCount EXCEPT ![c] = 0]
  /\ cycleReturned' = {}
  /\ selections' = 0
  /\ plain' = TRUE
  /\ observed' = NoCheck
  /\ UNCHANGED << serviceVars, dedupVars >>

\* Math.abs(a.intensity - intensity), in tenths
Distance(variant, intensity) ==
  IF variant.intensity >= intensity THEN variant.intensity - intensity
  ELSE intensity - variant.intensity

\* Array.prototype.sort is stable: an element goes behind those that are
\* not farther than it
RECURSIVE InsertByDistance(_, _, _)
InsertByDistance(sorted, variant, intensity) ==
  IF sorted = << >> THEN << variant >>
  ELSE IF Distance(Head(sorted), intensity) <= Distance(variant, intensity)
  THEN << Head(sorted) >> \o InsertByDistance(Tail(sorted), variant, intensity)
  ELSE << variant >> \o sorted

RECURSIVE SortByDistance(_, _, _)
SortByDistance(variants, sorted, intensity) ==
  IF variants = << >> THEN sorted
  ELSE SortByDistance(Tail(variants),
                      InsertByDistance(sorted, Head(variants), intensity), intensity)

\* the closest variant that comes last in DEDUP_VARIANTS
selectByIntensityLatest(intensity) ==
  DEDUP_VARIANTS[CHOOSE i \in 1..Len(DEDUP_VARIANTS) :
    \A k \in 1..Len(DEDUP_VARIANTS) :
       \/ Distance(DEDUP_VARIANTS[k], intensity) > Distance(DEDUP_VARIANTS[i], intensity)
       \/ /\ Distance(DEDUP_VARIANTS[k], intensity) = Distance(DEDUP_VARIANTS[i], intensity)
          /\ k <= i]

selectByIntensity(intensity) ==
  SortByDistance(DEDUP_VARIANTS, << >>, intensity)[1]

\* the intensities asked for, in tenths: 0.0, 0.1, ... 1.0
Intensities == 0..10

\* selectByIntensity(intensity)
SelectByIntensity(intensity) ==
  /\ observed' = [ op |-> "byIntensity", intensity |-> intensity,
                   variant |-> selectByIntensity(intensity) ]
  /\ UNCHANGED << serviceVars, dedupVars, selectorVars >>

\* the keys of STRATEGIES
STRATEGIES ==
  { "synonym_replace", "sentence_restructure", "paragraph_reorder",
    "perspective_shift", "transition_change", "formal_vocabulary",
    "colloquial_phrases", "metaphors" }

\* the contents handed to applyVariant.  None holds a word, pattern or
\* paragraph break that a strategy other than perspective_shift looks for,
\* so those strategies return them as they are whatever Math.random gives;
\* of the shifts of perspective_shift only "NI" "MEN" occurs.
AppliedContents == { << "a" >>, << "NI", "MEN", "a" >> }

\* STRATEGIES[strategy](content) on those contents
RunStrategy(strategy, content) ==
  IF strategy = "perspective_shift"
  THEN LET RECURSIVE Shift(_)
           Shift(text) ==
             IF Len(text) < 2 THEN text
             ELSE IF SubSeq(text, 1, 2) = << "NI", "MEN" >>
             THEN << "GE4", "WEI4" >> \o Shift(SubSeq(text, 3, Len(text)))
             ELSE << Head(text) >> \o Shift(Tail(text))
       IN  Shift(content)
  ELSE content

\* the loop of applyVariant from strategy i on: the running text and the
\* strategies invoked so far
RECURSIVE ApplyFrom(_, _, _, _)
ApplyFrom(strategies, i, running, invoked) ==
  IF i > Len(strategies) THEN [content |-> running, invoked |-> invoked]
  ELSE IF strategies[i] \in STRATEGIES
  THEN ApplyFrom(strategies, i + 1, RunStrategy(strategies[i], running),
                 Append(invoked, strategies[i]))
  ELSE ApplyFrom(strategies, i + 1, running, invoked)

applyVariant(content, variant) == ApplyFrom(variant.strategies, 1, content, << >>)

\* applyVariant(content, variant); the strategies it invoked are recorded
\* beside the text it returns
ApplyVariant(content, variant) ==
  LET applied == applyVariant(content, variant)
  IN  /\ observed' = [ op |-> "apply", content |-> content, variant |-> variant,
                       returned |-> applied.content, invoked |-> applied.invoked ]
      /\ UNCHANGED << serviceVars, dedupVars, selectorVars >>

SelectorInit ==
  /\ ConstructedFor(DefaultConfig, Callers)
  /\ DetectorIdle
  /\ SelectorFresh

SelectorNext ==
  \/ \E c \in SelectorCallers, exclude \in Excludes, index \in 1..Len(DEDUP_VARIANTS) :
       SelectVariant(c, exclude, index)
  \/ \E c \in SelectorCallers : ResetSelector(c)
  \/ \E intensity \in Intensities : SelectByIntensity(intensity)
  \/ \E content \in AppliedContents, i \in 1..Len(DEDUP_VARIANTS) :
       ApplyVariant(content, DEDUP_VARIANTS[i])

SelectorSpec == SelectorInit /\ [][SelectorNext]_vars

(***************************************************************************)
(* Two callers import dedupVariantService and call selectVariant() in any  *)
(* interleaving.                                                           *)
(***************************************************************************)
SharingCallers == {"s1", "s2"}

SharedSelectorInit ==
  /\ ConstructedFor(DefaultConfig, Callers)
  /\ DetectorIdle
  /\ SelectorFreshFor(SharingCallers)

SharedSelectorNext ==
  \E c \in SharingCallers, index \in 1..Len(DEDUP_VARIANTS) :
     SelectVariant(c, {}, index)

SharedSelectorSpec == SharedSelectorInit /\ [][SharedSelectorNext]_vars

(***************************************************************************)
(* addRandomness of the uniqueness service.  The scripts handed to it have *)
(* at most MaxShuffled segments.                                           *)
(***************************************************************************)
MaxShuffled == 4

\* the phrase groups of addRandomness: the original and its alternatives
Variations ==
  << << << "DA", "JIA2", "HAO", "COMMA", "JIN", "TIAN" >>,
        << "HUAN", "YING", "LAI", "DAO", "BEN", "QI", "COMMA" >>,
        << "JIN", "TIAN", "WO", "MEN", "LAI", "LIAO", "LIAO" >>,
        << "ZHE", "QI", "NEI", "RONG", "WO", "MEN", "YAO", "TAN", "TAO" >> >>,
     << << "JIE", "XIA", "LAI" >>,
        << "RAN", "HOU" >>, << "SUI", "HOU" >>, << "JIE", "ZHE2" >> >>,
     << << "FEI", "CHANG", "ZHONG", "YAO" >>,
        << "ZHI", "DE", "ZHU", "YI4" >>,
        << "GUAN", "JIAN", "ZAI", "YU" >>,
        << "HE", "XIN", "YAO", "DIAN", "SHI" >> >>,
     << << "ZONG", "JIE2", "YI", "XIA" >>,
        << "ZONG", "DE2", "LAI", "SHUO" >>,
        << "GUI", "NA", "QI3", "LAI" >>,
        << "ZONG2", "SHANG", "SUO", "SHU" >> >> >>

\* content.replace(new RegExp(original, 'g'), replacement); the originals
\* hold no character that is special in a regular expression
RECURSIVE ReplaceAll(_, _, _)
ReplaceAll(text, original, replacement) ==
  IF Len(text) < Len(original) THEN text
  ELSE IF SubSeq(text, 1, Len(original)) = original
  THEN replacement \o ReplaceAll(SubSeq(text, Len(original) + 1, Len(text)),
                                 original, replacement)
  ELSE << text[1] >> \o ReplaceAll(SubSeq(text, 2, Len(text)), original, replacement)

\* the loop over the groups; picks[g] is Math.floor(Math.random() * 3)
RECURSIVE ReplacePhrases(_, _, _)
ReplacePhrases(content, g, picks) ==
  IF g > Len(Variations) THEN content
  ELSE LET original == Variations[g][1]
           alternatives == SubSeq(Variations[g], 2, Len(Variations[g]))
           replacement == alternatives[picks[g] + 1]
       IN  ReplacePhrases(ReplaceAll(content, original, replacement), g + 1, picks)

Picks == [1..Len(Variations) -> 0..2]

\* [result[i], result[j]] = [result[j], result[i]], indices from 0
Swap(array, i, j) ==
  [k \in 1..Len(array) |->
     IF k = i + 1 THEN array[j + 1] ELSE IF k = j + 1 THEN array[i + 1] ELSE array[k]]

\* shuffleArray: for i from length - 1 down to 1, j = js[i] in 0..i
RECURSIVE ShuffleFrom(_, _, _)
ShuffleFrom(shuffled, i, js) ==
  IF i < 1 THEN shuffled ELSE ShuffleFrom(Swap(shuffled, i, js[i]), i - 1, js)

shuffleArray(array, js) == ShuffleFrom(array, Len(array) - 1, js)

\* the draws of Math.random in shuffleArray for an array of n elements
ShuffleDraws(n) == {js \in [1..(n - 1) -> 0..(n - 1)] : \A i \in 1..(n - 1) : js[i] <= i}

RearrangedFromFirst(segments, js) ==
  IF Len(segments) > 3
  THEN shuffleArray(SubSeq(segments, 1, Len(segments) - 2), js)
       \o SubSeq(segments, Len(segments) - 1, Len(segments))
  ELSE segments

\* the interior segments shuffled when there are more than three segments
Rearranged(segments, js) ==
  IF Len(segments) > 3
  THEN << segments[1] >>
       \o shuffleArray(SubSeq(segments, 2, Len(segments) - 1), js)
       \o << segments[Len(segments)] >>
  ELSE segments

\* the number of elements shuffleArray is called with
MiddleLength(segments) == IF Len(segments) > 3 THEN Len(segments) - 2 ELSE 1

\* segment ids are renewed: segment_<clock>_<index>_<random>
Renumbered(segments) ==
  [k \in 1..Len(segments) |->
     [segments[k] EXCEPT !.id = << "segment", ToString(k - 1) >>]]

addRandomness(script, cfg, picks, js) ==
  IF ~cfg.addRandomness THEN script
  ELSE [script EXCEPT
          !.content = ReplacePhrases(script.content, 1, picks),
          !.segments = Renumbered(Rearranged(script.segments, js))]

\* segments.map((s) => s.content).join('\n\n')
RECURSIVE JoinContents(_)
JoinContents(contents) ==
  IF contents = << >> THEN << >>
  ELSE IF Len(contents) = 1 THEN contents[1]
  ELSE contents[1] \o << "\n", "\n" >> \o JoinContents(Tail(contents))

\* a script whose content is its segments' contents joined
ScriptOf(contents) ==
  [ id |-> "script", content |-> JoinContents(contents),
    segments |-> SegmentsOf(contents) ]

\* segment contents: two plain ones and one that opens with a phrase of Variations
ShuffledContents ==
  { << "a" >>, << "b" >>, << "JIE", "XIA", "LAI", "c" >> }

ShuffledScripts ==
  {ScriptOf(contents) :
     contents \in UNION {[1..n -> ShuffledContents] : n \in 0..MaxShuffled}}

RandomnessInit ==
  /\ \E flag \in BOOLEAN :
        ConstructedFor([DefaultConfig EXCEPT !.addRandomness = flag], Callers)
  /\ DetectorIdle
  /\ SelectorFresh

\* addRandomness(script)
AddRandomness(script, picks, js) ==
  /\ observed.op = "none"
  /\ observed' = [ op |-> "randomize", script |-> script,
                   randomized |-> addRandomness(script, config, picks, js) ]
  /\ UNCHANGED << serviceVars, dedupVars, selectorVars >>

\* the caller has taken the value returned
TakeResult ==
  /\ observed.op # "none"
  /\ observed' = NoCheck
  /\ UNCHANGED << serviceVars, dedupVars, selectorVars >>

RandomnessNext ==
  \/ /\ observed.op = "none"
     /\ \E script \in ShuffledScripts, picks \in Picks :
          \E js \in ShuffleDraws(MiddleLength(script.segments)) :
             AddRandomness(script, picks, js)
  \/ TakeResult

RandomnessSpec == RandomnessInit /\ [][RandomnessNext]_vars

(***************************************************************************)
(* Properties.                                                             *)
(***************************************************************************)
Similarity(script, fp) ==
  calculateFingerprintSimilarity(generateFingerprint(script), fp)

\* a >= b for two fractions that are numbers
AtLeast(a, b) == a.num * b.den >= b.num * a.den

\* a > t/10
Exceeds(a, t) == ~IsNaN(a) /\ a.num * 10 > t * a.den

\* a >= t/10
Reaches(a, t) == ~IsNaN(a) /\ a.num * 10 >= t * a.den

\* C1: an invocation of ensureUniqueness whose rewrite collaborator returns on
\* each call terminates, and it makes at most maxRewriteAttempts + 1 calls of
\* checkUniqueness (the configuration being the one the invocation runs under,
\* unchanged while it is suspended).
C1_TerminatesWithinBound ==
  /\ [](\A c \in Callers : stable[c] => checks[c] <= config.maxRewriteAttempts + 1)
  /\ \A c \in Callers : (pc[c] = "awaiting") ~> (pc[c] = "done" \/ ~stable[c])

C1_Witness ==
  \E c \in Callers :
    /\ pc[c] = "done" /\ stable[c]
    /\ checks[c] = MaxAttempts /\ rewrites[c] = MaxAttempts /\ MaxAttempts >= 2

\* C2: with maxRewriteAttempts = 0, ensureUniqueness makes exactly one
\* uniqueness check and returns without calling the rewrite collaborator.
C2_OneCheckWhenZeroAttempts ==
  \A c \in Callers :
    (pc[c] = "done" /\ stable[c] /\ config.maxRewriteAttempts = 0)
      => (checks[c] = 1 /\ rewrites[c] = 0)

\* C3: an invocation that returned isUnique true appended exactly one
\* fingerprint, that of the returned script; one that returned isUnique false
\* appended none.
C3_RegistersOnlyOnAcceptance ==
  \A c \in Callers :
    pc[c] = "done" =>
      IF result[c].isUnique
      THEN registered[c] = << generateFingerprint(result[c].script) >>
      ELSE registered[c] = <<>>

C3_Witness ==
  \E c \in Callers :
    /\ pc[c] = "done" /\ result[c].isUnique /\ result[c].attempts >= 1
    /\ Len(fingerprints) >= 2

\* C4: with automatic rewriting enabled, an invocation all of whose checks
\* found a match returns isUnique false, attempts = maxRewriteAttempts = the
\* number of rewrite calls, and the script the last rewrite call returned.
C4_ExhaustedReturnsLastCandidate ==
  \A c \in Callers :
    (pc[c] = "done" /\ stable[c] /\ config.autoRewrite /\ allMatched[c]) =>
      /\ ~result[c].isUnique
      /\ result[c].attempts = config.maxRewriteAttempts
      /\ rewrites[c] = result[c].attempts
      /\ (rewrites[c] > 0 => result[c].script = lastRewrite[c])

C4_Witness ==
  \E c \in Callers :
    /\ pc[c] = "done" /\ stable[c] /\ config.autoRewrite /\ allMatched[c]
    /\ checks[c] >= 2 /\ result[c].attempts = config.maxRewriteAttempts
    /\ result[c].script = lastRewrite[c]

\* C5: a failure of the rewrite collaborator is caught inside ensureUniqueness
\* and never reaches the caller: no invocation ends rejected.
C5_RewriteFailureNeverPropagates ==
  \A c \in Callers : pc[c] # "rejected"

\* C6 as stated, under the default checkHistory = true: checkUniqueness
\* returns isUnique true exactly when no fingerprint of the history has a
\* similarity that exceeds the threshold.
C6_UniqueIffNoneExceeds ==
  (observed.op = "check" /\ config.checkHistory) =>
    (observed.check.isUnique <=>
       ~\E i \in 1..Len(fingerprints) :
          Exceeds(Similarity(observed.script, fingerprints[i]),
                  config.similarityThreshold))

\* C6 as amended: with history checking enabled, checkUniqueness returns
\* isUnique true exactly when no fingerprint of the history has a similarity
\* greater than or equal to the threshold; with history checking disabled it
\* always returns isUnique true.
C6_UniqueIffNoneReaches ==
  observed.op = "check" =>
    (observed.check.isUnique <=>
       (~config.checkHistory
          \/ ~\E i \in 1..Len(fingerprints) :
                Reaches(Similarity(observed.script, fingerprints[i]),
                        config.similarityThreshold)))

\* a check that fails on a similarity equal to the threshold
C6_Witness ==
  /\ observed.op = "check"
  /\ ~observed.check.isUnique
  /\ observed.check.similarity.num * 10
       = config.similarityThreshold * observed.check.similarity.den

\* C7: when checkUniqueness reports isUnique false, the similarity it reports
\* is the highest similarity of the script to any fingerprint of the history.
C7_ReportsBestMatch ==
  (observed.op = "check" /\ ~observed.check.isUnique) =>
    \A i \in 1..Len(fingerprints) :
      LET other == Similarity(observed.script, fingerprints[i])
      IN  ~IsNaN(other) => AtLeast(observed.check.similarity, other)

HistoryKept ==
  /\ Len(fingerprints') >= Len(fingerprints)
  /\ SubSeq(fingerprints', 1, Len(fingerprints)) = fingerprints

\* C8: except for clearHistory, no operation removes or changes a fingerprint
\* of the history: every step keeps the history as a prefix of the new one.
C8_HistoryAppendOnly == [][ClearHistory \/ HistoryKept]_vars

C8_Witness ==
  /\ Len(fingerprints) >= 2
  /\ \E c \in Callers : pc[c] = "done" /\ registered[c] # <<>>

SelfReferring(r) == r.source.segmentId = r.target.segmentId

\* C9: no result of an enabled pass, and no result of the merged output of
\* detectDuplicates, has its source and its target on the same segment.
C9_NoSelfDuplicate ==
  observed.op = "detect" =>
    /\ \A k \in 1..Len(observed.detected) : ~SelfReferring(observed.detected[k])
    /\ \A k \in 1..Len(observed.duplicates) : ~SelfReferring(observed.duplicates[k])

SamePair(r, q) ==
  /\ r.source.segmentId = q.source.segmentId
  /\ r.target.segmentId = q.target.segmentId

ReversedPair(r, q) ==
  /\ r.source.segmentId = q.target.segmentId
  /\ r.target.segmentId = q.source.segmentId

OnePerPair(results) ==
  \A i, j \in 1..Len(results) :
     i < j => ~SamePair(results[i], results[j]) /\ ~ReversedPair(results[i], results[j])

\* C10: the output of deduplicateResults, and so the output of
\* detectDuplicates, holds at most one result for each unordered pair of
\* segments: never both (source a, target b) and (source b, target a), and
\* never two results for the same (a, b).
C10_OneResultPerPair ==
  /\ observed.op = "detect" => OnePerPair(observed.duplicates)
  /\ observed.op = "dedup" => OnePerPair(observed.kept)

\* a list with both directions of a pair, and with a pair twice, went in and
\* results came out
C10_Witness ==
  /\ observed.op = "dedup"
  /\ \E i, j \in 1..Len(observed.results) :
        i < j /\ ReversedPair(observed.results[i], observed.results[j])
              /\ ~SelfReferring(observed.results[i])
  /\ \E i, j \in 1..Len(observed.results) :
        i < j /\ SamePair(observed.results[i], observed.results[j])
  /\ Len(observed.kept) >= 2
  /\ Len(observed.kept) < Len(observed.results)

\* the registrations of fp by the invocations that are under way or done
RegistrationsOf(fp) ==
  Cardinality({e \in (DOMAIN pc) \X (1..(MaxHistory + 2)) :
                 /\ e[2] <= Len(registered[e[1]])
                 /\ registered[e[1]][e[2]] = fp})

\* C11: when the invocations of several callers interleave at their rewrite
\* suspension points no registration is lost: every fingerprint an invocation
\* registered is in the in-memory history and in the persisted history, as
\* many times as it was registered.
C11_NoLostRegistration ==
  \A c \in DOMAIN pc :
    \A k \in 1..Len(registered[c]) :
      LET fp == registered[c][k]
      IN  /\ Occurrences(fingerprints, fp) >= RegistrationsOf(fp)
          /\ stored.present
          /\ Occurrences(stored.entries, fp) >= RegistrationsOf(fp)

\* both callers registered, one of them while the other was suspended
C11_Witness ==
  /\ \A c \in ConcurrentCallers : pc[c] = "done" /\ registered[c] # << >>
  /\ \E c \in ConcurrentCallers : overlapped[c]

\* the position, 1 to 8, of the n-th selection in its run of eight
PlaceInCycle(n) == IF n = 0 THEN 0 ELSE ((n - 1) % Len(DEDUP_VARIANTS)) + 1

\* C12: callers that interleave their selectVariant calls do not interfere:
\* the variants a caller received in its own run of eight selections are
\* distinct, so none comes twice before the caller has had all eight.
C12_CallersDoNotInterfere ==
  \A c \in DOMAIN received :
    Cardinality(received[c]) = PlaceInCycle(receivedCount[c])

\* C13: from a fresh or reset selector, selecting without exclusions, the
\* variants returned in each run of eight selections are distinct: none comes
\* a second time before all eight have come, and after the eighth a new
\* cycle begins.
C13_RoundRobinWithoutRepeats ==
  plain => Cardinality(cycleReturned) = PlaceInCycle(selections)

\* a full cycle was returned and a selection of the next cycle was made
C13_Witness ==
  /\ plain
  /\ selections > Len(DEDUP_VARIANTS)
  /\ observed.op = "select"

ContentsOf(segments) == [k \in 1..Len(segments) |-> segments[k].content]

\* the same contents, each as often, in the two sequences
SameContents(contents1, contents2) ==
  /\ Len(contents1) = Len(contents2)
  /\ \A text \in Range(contents1) \cup Range(contents2) :
        Occurrences(contents1, text) = Occurrences(contents2, text)

\* C14: for a script of two or more segments addRandomness returns as many
\* segments, the first with the content of the input's first segment and the
\* last with the content of the input's last; only the interior segments may
\* change places.
C14_EndsStayInPlace ==
  (observed.op = "randomize" /\ Len(observed.script.segments) >= 2) =>
    LET before == ContentsOf(observed.script.segments)
        after == ContentsOf(observed.randomized.segments)
    IN  /\ Len(after) = Len(before)
        /\ after[1] = before[1]
        /\ after[Len(after)] = before[Len(before)]
        /\ SameContents(SubSeq(before, 2, Len(before) - 1),
                        SubSeq(after, 2, Len(after) - 1))

\* interior segments did change places
C14_Witness ==
  /\ observed.op = "randomize"
  /\ config.addRandomness
  /\ Len(observed.script.segments) = MaxShuffled
  /\ ContentsOf(observed.randomized.segments) # ContentsOf(observed.script.segments)

\* C15: the score of generateOriginalityReport lies in [0, 100]; it is
\* max(0, 100 - 100 * (distinct flagged target segments) / totalSegments),
\* and 100 for a script of no segments.
C15_ScoreInRange ==
  observed.op = "report" =>
    LET score == observed.report.score
        total == Len(scriptSegments)
        flagged == DuplicateCount(observed.report.duplicates)
    IN  /\ ~IsNaN(score)
        /\ 0 <= score.num /\ score.num <= 100 * score.den
        /\ IF total = 0 THEN score.num = 100 * score.den
           ELSE score.num * total = Max(0, 100 * total - 100 * flagged) * score.den

(***************************************************************************)
(* The service handed any configuration a caller can write: the            *)
(* constructor and updateConfig spread the given fields over the current   *)
(* ones.  Thresholds are in tenths: -0.1, 0.3 and 1.1.                     *)
(***************************************************************************)
SuppliedThresholds == {0 - 1, 3, 11}

SuppliedAttempts == (0 - 1)..MaxAttempts

SuppliedConfigs ==
  [ similarityThreshold : SuppliedThresholds,
    checkHistory        : BOOLEAN,
    autoRewrite         : BOOLEAN,
    maxRewriteAttempts  : SuppliedAttempts,
    addRandomness       : {TRUE} ]

SuppliedConfigInit ==
  /\ \E cfg \in SuppliedConfigs : Constructed(cfg)
  /\ DetectorIdle
  /\ SelectorFresh

SuppliedConfigNext ==
  \/ \E c \in Callers, script \in Scripts : EnsureUniqueness(c, script)
  \/ \E c \in Callers, rewritten \in Scripts : RewriteReturns(c, rewritten)
  \/ \E c \in Callers : RewriteFails(c)
  \/ \E c \in Callers : Settle(c)
  \/ \E script \in Scripts : CheckUniqueness(script)
  \/ \E script \in Scripts : RegisterScript(script)
  \/ \E newConfig \in SuppliedConfigs : UpdateConfig(newConfig)

SuppliedConfigSpec == SuppliedConfigInit /\ [][SuppliedConfigNext]_vars

ValidConfig(cfg) ==
  /\ 0 <= cfg.similarityThreshold /\ cfg.similarityThreshold <= 10
  /\ cfg.maxRewriteAttempts >= 0

\* C16: a configuration with a threshold outside [0,1] or a negative
\* maxRewriteAttempts is rejected when supplied, so no checkUniqueness call
\* and no ensureUniqueness invocation runs with such a value in effect.
C16_NoRunUnderInvalidConfig ==
  (observed.op = "check" \/ \E c \in DOMAIN pc : pc[c] # "idle")
    => ValidConfig(config)

(***************************************************************************)
(* The service when content already submitted comes again as another      *)
(* script.                                                                 *)
(***************************************************************************)
ResubmitNext ==
  \/ \E c \in Callers, script \in AllScripts : EnsureUniqueness(c, script)
  \/ \E c \in Callers, rewritten \in AllScripts : RewriteReturns(c, rewritten)
  \/ \E c \in Callers : Settle(c)
  \/ \E script \in AllScripts : CheckUniqueness(script)
  \/ \E script \in AllScripts : RegisterScript(script)
  \/ ClearHistory
  \/ \E newConfig \in Configs : UpdateConfig(newConfig)

ResubmitSpec == Init /\ [][ResubmitNext]_vars

ScriptOfId(id) == CHOOSE script \in AllScripts : script.id = id

SameContentAs(fp, script) == ScriptOfId(fp.scriptId).content = script.content

\* C17: the hash of a fingerprint depends on the content alone.  A fingerprint
\* in the history, whenever and under whatever configuration it was
\* registered, has the hash of every script of the same content, whatever the
\* script's id and segments; the similarity of the two fingerprints is 1, and
\* a check that matches that earlier fingerprint reports similarity 1.
C17_HashOfContentAlone ==
  /\ \A i \in 1..Len(fingerprints), script \in AllScripts :
        SameContentAs(fingerprints[i], script) =>
          /\ generateFingerprint(script).hash = fingerprints[i].hash
          /\ calculateFingerprintSimilarity(generateFingerprint(script),
                                            fingerprints[i]) = Ratio(1, 1)
  /\ (observed.op = "check" /\ observed.check.matched > 0
        /\ SameContentAs(fingerprints[observed.check.matched], observed.script))
       => observed.check.similarity = Ratio(1, 1)

\* aabb is in the history and its content, submitted as aabbAgain, is checked
\* and matched against it
C17_Witness ==
  /\ observed.op = "check"
  /\ observed.script.id = "aabbAgain"
  /\ observed.check.matched > 0
  /\ fingerprints[observed.check.matched].scriptId = "aabb"

(***************************************************************************)
(* The similarity functions called on their own: calculateSimilarity and   *)
(* calculateStructureSimilarity of the detectors on every text of at most  *)
(* MaxTextLen characters of TextAlphabet, calculateFingerprintSimilarity   *)
(* on the fingerprints of the scripts of the model and of two degenerate   *)
(* ones.                                                                   *)
(***************************************************************************)
MaxTextLen == 3

TextAlphabet == { "a", "b", " ", "COMMA", "SHI" }

Texts == UNION { [1..n -> TextAlphabet] : n \in 0..MaxTextLen }

\* a script of no content and no segments, and one whose content has no
\* word of two characters
DegenerateScripts ==
  { [ id |-> "empty", content |-> << >>, segments |-> << >> ],
    [ id |-> "short", content |-> << "a" >>,
      segments |-> << Segment("g1", "narration", << "a" >>) >> ] }

ComparedFingerprints ==
  { FingerprintOf(script) : script \in AllScripts \cup DegenerateScripts }

Compared(kind, left, right, similarity) ==
  /\ observed' = [ op |-> "similarity", kind |-> kind, left |-> left,
                   right |-> right, similarity |-> similarity ]
  /\ UNCHANGED << serviceVars, dedupVars, selectorVars >>

CalculateSimilarity(text1, text2) ==
  Compared("edit", text1, text2, calculateSimilarity(text1, text2))

CalculateStructureSimilarity(text1, text2) ==
  Compared("structure", text1, text2,
           calculateStructureSimilarityOfTexts(text1, text2))

CalculateFingerprintSimilarity(fp1, fp2) ==
  Compared("fingerprint", fp1, fp2, calculateFingerprintSimilarity(fp1, fp2))

SimilarityInit ==
  /\ Constructed(DefaultConfig)
  /\ DetectorIdle
  /\ SelectorFresh

SimilarityNext ==
  \/ /\ observed.op = "none"
     /\ \E text1 \in Texts, text2 \in Texts : CalculateSimilarity(text1, text2)
  \/ /\ observed.op = "none"
     /\ \E text1 \in Texts, text2 \in Texts :
          CalculateStructureSimilarity(text1, text2)
  \/ /\ observed.op = "none"
     /\ \E fp1 \in ComparedFingerprints, fp2 \in ComparedFingerprints :
          CalculateFingerprintSimilarity(fp1, fp2)
  \/ TakeResult

SimilaritySpec == SimilarityInit /\ [][SimilarityNext]_vars

IsOne(similarity) == ~IsNaN(similarity) /\ similarity.num = similarity.den

IsZero(similarity) == ~IsNaN(similarity) /\ similarity.num = 0

\* C18: calculateSimilarity is symmetric, and it is 1.0 on two copies of any
\* non-empty string, strings of only whitespace or stripped punctuation
\* included.
C18_SymmetricAndReflexive ==
  (observed.op = "similarity" /\ observed.kind = "edit") =>
    /\ observed.similarity = calculateSimilarity(observed.right, observed.left)
    /\ (observed.left = observed.right /\ observed.left # << >>)
         => IsOne(observed.similarity)

\* C19: every similarity is a number in [0, 1]; the edit similarity of two
\* empty strings is 1.0 and that of an empty and a non-empty string is 0.0.
C19_SimilarityInUnitInterval ==
  observed.op = "similarity" =>
    /\ ~IsNaN(observed.similarity)
    /\ 0 <= observed.similarity.num
    /\ observed.similarity.num <= observed.similarity.den
    /\ observed.kind = "edit" =>
         /\ (observed.left = << >> /\ observed.right = << >>)
              => IsOne(observed.similarity)
         /\ ((observed.left = << >>) # (observed.right = << >>))
              => IsZero(observed.similarity)

(***************************************************************************)
(* The service constructed over what the key script_fingerprints holds:    *)
(* nothing, text that is not JSON, the text null, an object saved by       *)
(* saveFingerprints, or an object with an entry that lost its fields.      *)
(***************************************************************************)
\* a stored record of which only scriptId is left
Truncated == [scriptId |-> "lost"]

\* entry.field is undefined
IsUndefined(entry, field) == field \notin DOMAIN entry

StoredAtLoad ==
  LET saved == generateFingerprint(CHOOSE script \in Scripts : script.id = "aabb")
  IN  { NoStored, Unparsable, NullStored }
        \cup { saveFingerprints(fps) :
                 fps \in { << >>, << Truncated >>, << saved >>,
                           << saved, Truncated >> } }

\* the index of the first entry whose structure is undefined, 0 if none
FirstWithoutStructure(fps) ==
  IF \E i \in 1..Len(fps) : IsUndefined(fps[i], "structure")
  THEN CHOOSE i \in 1..Len(fps) :
         /\ IsUndefined(fps[i], "structure")
         /\ \A j \in 1..(i - 1) : ~IsUndefined(fps[j], "structure")
  ELSE 0

\* checkUniqueness throws a TypeError: the loop reaches an entry without
\* hash and structure, and calculateStructureSimilarity calls split on
\* undefined
checkUniquenessThrows(script, fps, cfg) ==
  LET i == FirstWithoutStructure(fps)
  IN  /\ cfg.checkHistory
      /\ i > 0
      /\ ScanHistory(generateFingerprint(script), SubSeq(fps, 1, i - 1), 1,
                     cfg.similarityThreshold) = 0

\* checkUniqueness(script) on the loaded history
CheckUniquenessLoaded(script) ==
  /\ observed' = IF checkUniquenessThrows(script, fingerprints, config)
                 THEN [ op |-> "threw", script |-> script, error |-> "TypeError" ]
                 ELSE [ op |-> "check", script |-> script,
                        check |-> checkUniqueness(script, fingerprints, config) ]
  /\ UNCHANGED << dedupVars, selectorVars >>
  /\ NoCallerStep
  /\ UNCHANGED << config, fingerprints, stored, stable >>

LoadInit ==
  /\ \E cfg \in Configs, st \in StoredAtLoad : ConstructedOver(cfg, Callers, st)
  /\ DetectorIdle
  /\ SelectorFresh

LoadNext ==
  \/ \E script \in Scripts : CheckUniquenessLoaded(script)
  \/ \E script \in Scripts : RegisterScript(script)
  \/ ClearHistory
  \/ \E newConfig \in Configs : UpdateConfig(newConfig)

LoadSpec == LoadInit /\ [][LoadNext]_vars

\* what is stored is not a history: it does not parse, or an entry of it is
\* not a fingerprint
Corrupt(st) ==
  /\ st.present
  /\ \/ "throws" \in DOMAIN st
     \/ \E i \in 1..Len(st.entries) : IsUndefined(st.entries[i], "structure")

\* no fingerprint is in the history
NoneRegistered ==
  \A i \in 1..Len(fingerprints) : IsUndefined(fingerprints[i], "structure")

\* C20: over a corrupt stored history the service works as over an empty
\* one: until a fingerprint is registered, a checkUniqueness call completes
\* and reports isUnique = true.
C20_CorruptHistoryDiscarded ==
  (Corrupt(stored) /\ NoneRegistered /\ observed.op \in {"check", "threw"})
    => (observed.op = "check" /\ observed.check.isUnique)

\* the results of detectExactDuplicates among the detections of the call
ExactResults == SelectSeq(observed.detected, LAMBDA r : r.type = "exact")

NormalizedOfSegment(i) == NormalizedContents[scriptSegments[i].content]

\* the first segment with the normalized content of segment j
FirstWithContentOf(j) ==
  CHOOSE i \in 1..j :
    /\ NormalizedOfSegment(i) = NormalizedOfSegment(j)
    /\ \A k \in 1..(i - 1) : NormalizedOfSegment(k) # NormalizedOfSegment(j)

\* C21: detectExactDuplicates emits one result for every segment whose
\* normalized content is that of an earlier segment, from the first segment
\* with that normalized content to the later one, of type exact and
\* similarity 1, and nothing else: as many results as there are segments
\* beyond the distinct normalized contents.
C21_OneExactResultPerRepeat ==
  (observed.op = "detect" /\ "exact" \in observed.config.strategies) =>
    LET n == Len(scriptSegments)
        first(j) == scriptSegments[FirstWithContentOf(j)]
    IN  /\ Len(ExactResults) =
             n - Cardinality({NormalizedOfSegment(i) : i \in 1..n})
        /\ \A j \in 1..n :
             FirstWithContentOf(j) < j =>
               /\ Cardinality({k \in 1..Len(ExactResults) :
                     ExactResults[k].target.segmentId = scriptSegments[j].id}) = 1
               /\ \E k \in 1..Len(ExactResults) :
                     /\ ExactResults[k].target =
                          Endpoint(scriptSegments[j], scriptSegments[j].content)
                     /\ ExactResults[k].source = Endpoint(first(j), first(j).content)
                     /\ ExactResults[k].similarity = Ratio(1, 1)

\* the third segment repeats the first in other characters, the second
\* differs, and the one result goes from the first to the third
C21_Witness ==
  /\ observed.op = "detect" /\ "exact" \in observed.config.strategies
  /\ Len(scriptSegments) = 3
  /\ scriptSegments[1].content # scriptSegments[3].content
  /\ NormalizedOfSegment(1) = NormalizedOfSegment(3)
  /\ NormalizedOfSegment(1) # NormalizedOfSegment(2)
  /\ Len(ExactResults) = 1
  /\ ExactResults[1].source.segmentId = scriptSegments[1].id
  /\ ExactResults[1].target.segmentId = scriptSegments[3].id

\* two fractions of non-zero denominators are the same number
SameNumber(r1, r2) == r1.num * r2.den = r2.num * r1.den

\* |A intersect B| / |A union B| of the two keyword lists
Jaccard(keywords1, keywords2) ==
  Ratio(Cardinality(Range(keywords1) \cap Range(keywords2)),
        Cardinality(Range(keywords1) \cup Range(keywords2)))

\* the segment positions at which the two structures have equal descriptors
EqualPositions(structure1, structure2) ==
  Cardinality({i \in 1..Len(structure1) : structure1[i] = structure2[i]})

\* C22: the similarity of two fingerprints is 1 when their hashes are equal;
\* otherwise it is 0.6 * (Jaccard similarity of the keyword sets) + 0.4 *
\* (fraction of segment positions with equal descriptors), the second term
\* being 0 when the segment counts differ, so that it is then at most 0.6.
C22_WeightedFingerprintSimilarity ==
  (observed.op = "similarity" /\ observed.kind = "fingerprint") =>
    LET fp1 == observed.left
        fp2 == observed.right
        similarity == observed.similarity
        jaccard == Jaccard(fp1.keywords, fp2.keywords)
        count1 == Len(fp1.structure)
        count2 == Len(fp2.structure)
    IN  IF fp1.hash = fp2.hash THEN similarity = Ratio(1, 1)
        ELSE /\ (count1 # count2 /\ ~IsNaN(jaccard)) =>
                  /\ ~IsNaN(similarity)
                  /\ SameNumber(similarity, Ratio(6 * jaccard.num, 10 * jaccard.den))
                  /\ similarity.num * 10 <= 6 * similarity.den
             /\ (count1 = count2 /\ count1 > 0 /\ ~IsNaN(jaccard)) =>
                  /\ ~IsNaN(similarity)
                  /\ SameNumber(similarity,
                       Ratio(6 * jaccard.num * count1
                               + 4 * EqualPositions(fp1.structure, fp2.structure)
                                   * jaccard.den,
                             10 * jaccard.den * count1))

\* one segment against two whose first has the same descriptor, other
\* hashes: the structural term is 0
C22_Witness ==
  /\ observed.op = "similarity" /\ observed.kind = "fingerprint"
  /\ observed.left.hash # observed.right.hash
  /\ Len(observed.left.structure) = 1
  /\ Len(observed.right.structure) = 2
  /\ observed.left.structure[1] = observed.right.structure[1]
  /\ observed.similarity.num = 0 /\ observed.similarity.den # 0

IndexOfVariant(id) == CHOOSE i \in 1..Len(DEDUP_VARIANTS) : DEDUP_VARIANTS[i].id = id

\* no variant is closer to the intensity, and none as close comes earlier in
\* the enumeration
ClosestAndFirst(variant, intensity) ==
  \A k \in 1..Len(DEDUP_VARIANTS) :
     /\ Distance(DEDUP_VARIANTS[k], intensity) >= Distance(variant, intensity)
     /\ Distance(DEDUP_VARIANTS[k], intensity) = Distance(variant, intensity)
          => k >= IndexOfVariant(variant.id)

\* C23: selectByIntensity returns a variant whose intensity is closest to the
\* target, the first in enumeration order among those equally close, and
\* leaves the used-variants set as it was.
C23_ClosestFirstInOrder ==
  [][observed'.op = "byIntensity" =>
       /\ ClosestAndFirst(observed'.variant, observed'.intensity)
       /\ usedVariants' = usedVariants]_vars

\* 0.6 asked for with variants in use: academic and technical are equally
\* close, academic is returned
C23_Witness ==
  /\ observed.op = "byIntensity"
  /\ observed.intensity = 6
  /\ observed.variant.id = "academic"
  /\ usedVariants # {}

\* C24: applyVariant invokes every strategy of the variant's pipeline, in
\* pipeline order, none skipped.
C24_WholePipelineRuns ==
  observed.op = "apply" => observed.invoked = observed.variant.strategies

\* the content of the script is its segments' contents, joined in order
ContentOfSegments(script) == script.content = JoinContents(ContentsOf(script.segments))

\* C25: a script returned by addRandomness has as content the concatenation
\* of its segments' contents in segment order, if the script given had.
C25_ContentFollowsSegments ==
  (observed.op = "randomize" /\ ContentOfSegments(observed.script))
    => ContentOfSegments(observed.randomized)

\* similarity < threshold, the threshold in tenths
BelowThreshold(similarity, threshold) ==
  ~IsNaN(similarity) /\ similarity.num * 10 < threshold * similarity.den

C27_NonUniqueOnlyIfCheckFails ==
  [][\A c \in DOMAIN pc :
       (pc[c] # "done" /\ pc'[c] = "done" /\ stable[c] /\ config.autoRewrite
          /\ rewrites'[c] > 0 /\ ~result'[c].isUnique)
         => ~checkUniqueness(result'[c].script, fingerprints', config').isUnique]_vars

(***************************************************************************)
(* WorkflowService.stepEnsureUniqueness: the step configures the service,  *)
(* passes the script through addRandomness, awaits ensureUniqueness with   *)
(* its own rewriteFn and stores the script and its uniqueness report in    *)
(* the workflow data.                                                      *)
(***************************************************************************)
\* the literal the step spreads uniquenessConfig over
StepDefaults ==
  [ similarityThreshold |-> 3, checkHistory |-> TRUE,
    autoRewrite |-> TRUE, maxRewriteAttempts |-> 3, addRandomness |-> TRUE ]

\* the uniquenessConfig arguments of the model: none, or one field
StepConfigs ==
  { StepDefaults,
    [StepDefaults EXCEPT !.similarityThreshold = 5],
    [StepDefaults EXCEPT !.checkHistory = FALSE],
    [StepDefaults EXCEPT !.maxRewriteAttempts = 1] }

\* Math.random().toString(36).substring(7)
Seeds == { << "a", "b" >>, << "b", "c" >> }

\* `\n<!-- rewrite: ${randomSeed} -->`
RewriteComment(seed) ==
  << "\n", "<", "!", "-", "-", " ", "r", "e", "w", "r", "i", "t", "e", ":", " " >>
    \o seed \o << " ", "-", "-", ">" >>

\* the rewriteFn of the step: the script itself when the workflow data lacks
\* videoInfo, videoAnalysis or selectedTemplate
StepRewrite(script, dataLoaded, seed) ==
  IF ~dataLoaded THEN script
  ELSE [script EXCEPT !.content = @ \o RewriteComment(seed)]

\* the draws of addRandomness in the step: one alternative for every group
StepPicks == {[g \in 1..Len(Variations) |-> k] : k \in 0..2}

\* generateUniquenessReport(script); every fingerprint of the model was
\* created within the last seven days
generateUniquenessReport(script, fps, cfg) ==
  [ fingerprint |-> generateFingerprint(script),
    check       |-> checkUniqueness(script, fps, cfg),
    history     |-> [totalScripts |-> Len(fps), recentScripts |-> Len(fps)] ]

\* what follows await ensureUniqueness: updateData({uniqueScript,
\* uniquenessReport}) and the value the step returns
StepCompletes(c) ==
  observed' =
    IF pc'[c] = "done"
    THEN [ op |-> "step",
           uniqueScript |-> result'[c].script,
           uniquenessReport |->
             generateUniquenessReport(result'[c].script, fingerprints', config'),
           returned |-> [ script |-> result'[c].script,
                          isUnique |-> result'[c].isUnique,
                          attempts |-> result'[c].attempts ] ]
    ELSE NoCheck

\* stepEnsureUniqueness(uniquenessConfig) up to its first suspension
StepEnsureUniqueness(c, scriptToCheck, stepConfig, picks, js) ==
  /\ pc[c] = "idle"
  /\ RoomToRegister
  /\ config' = stepConfig
  /\ stable' = [d \in DOMAIN stable |-> stable[d] /\ (pc[d] = "idle" \/ config' = config)]
  /\ LET scriptWithRandomness == addRandomness(scriptToCheck, config', picks, js)
     IN  IterateUnder(c, scriptWithRandomness, 0, config')
  /\ StepCompletes(c)
  /\ UNCHANGED << dedupVars, selectorVars, lastRewrite >>

\* the rewriteFn of the step resolves and ensureUniqueness goes on
StepRewriteReturns(c, dataLoaded, seed) ==
  /\ pc[c] = "awaiting"
  /\ LET rewritten == StepRewrite(currentScript[c], dataLoaded, seed)
     IN  /\ lastRewrite' = [lastRewrite EXCEPT ![c] = rewritten]
         /\ Iterate(c, rewritten, attempts[c])
  /\ config' = config
  /\ StepCompletes(c)
  /\ UNCHANGED << dedupVars, selectorVars, stable >>

WorkflowInit ==
  /\ ConstructedFor(DefaultConfig, Callers)
  /\ DetectorIdle
  /\ SelectorFresh

WorkflowNext ==
  \/ \E c \in Callers, scriptToCheck \in Scripts, stepConfig \in StepConfigs,
        picks \in StepPicks :
       \E js \in ShuffleDraws(MiddleLength(scriptToCheck.segments)) :
          StepEnsureUniqueness(c, scriptToCheck, stepConfig, picks, js)
  \/ \E c \in Callers, dataLoaded \in BOOLEAN, seed \in Seeds :
       StepRewriteReturns(c, dataLoaded, seed)
  \/ \E c \in Callers : Settle(c)
  \/ ClearHistory

WorkflowSpec == WorkflowInit /\ [][WorkflowNext]_vars

\* C28: when stepEnsureUniqueness completes, the check of the uniqueness
\* report it stores says what ensureUniqueness returned for the script:
\* uniquenessReport.check.isUnique equals the returned isUnique.
C28_ReportAgreesWithResult ==
  observed.op = "step" =>
    observed.uniquenessReport.check.isUnique = observed.returned.isUnique

(***************************************************************************)
(* selectVariant under any exclusion list, the one that names every        *)
(* variant included.                                                       *)
(***************************************************************************)
AllExcludes ==
  Excludes \cup { VariantIds \ {"balanced"}, VariantIds }

\* selectVariant(exclude) when exclude names every variant: available is
\* empty, usedVariants is cleared and the call is made again, with the same
\* outcome, until the call stack is exhausted and a RangeError is thrown
SelectVariantOverflows(c, exclude) ==
  /\ Available(UsedAtDraw(usedVariants, exclude), exclude) = << >>
  /\ usedVariants' = {}
  /\ observed' = [op |-> "overflow", caller |-> c, exclude |-> exclude]
  /\ UNCHANGED << received, receivedCount, cycleReturned, selections, plain >>
  /\ UNCHANGED << serviceVars, dedupVars >>

ExclusionNext ==
  \/ \E c \in SelectorCallers, exclude \in AllExcludes, index \in 1..Len(DEDUP_VARIANTS) :
       SelectVariant(c, exclude, index)
  \/ \E c \in SelectorCallers, exclude \in AllExcludes : SelectVariantOverflows(c, exclude)
  \/ \E c \in SelectorCallers : ResetSelector(c)

ExclusionSpec == SelectorInit /\ [][ExclusionNext]_vars

\* a call of selectVariant(exclude) by c, whatever its outcome
SelectVariantCalled(c, exclude) ==
  \/ \E index \in 1..Len(DEDUP_VARIANTS) : SelectVariant(c, exclude, index)
  \/ SelectVariantOverflows(c, exclude)

\* C29: whatever the exclusion list and the used set, selectVariant(exclude)
\* returns a variant that is not excluded, and the variant is in the used set
\* after the call.
C29_SelectVariantReturns ==
  [][\A c \in SelectorCallers, exclude \in AllExcludes :
       SelectVariantCalled(c, exclude)
         => /\ observed'.op = "select"
            /\ observed'.variant \notin exclude
            /\ observed'.variant \in usedVariants']_vars

(***************************************************************************)
(* DedupService.autoFix: the duplicates found are dealt with one after     *)
(* the other on a copy of the segments.                                    *)
(***************************************************************************)
\* segments.findIndex((s) => s.id === id), from 1; 0 stands for -1
FindIndex(segments, id) ==
  IF \E i \in 1..Len(segments) : segments[i].id = id
  THEN CHOOSE i \in 1..Len(segments) :
         /\ segments[i].id = id
         /\ \A k \in 1..(i - 1) : segments[k].id # id
  ELSE 0

\* segments.splice(index, 1)
Splice(segments, index) ==
  SubSeq(segments, 1, index - 1) \o SubSeq(segments, index + 1, Len(segments))

\* mergeSegments(segments, duplicate); the segments of the model have no endTime
mergeSegments(segments, duplicate) ==
  LET sourceIndex == FindIndex(segments, duplicate.source.segmentId)
      targetIndex == FindIndex(segments, duplicate.target.segmentId)
  IN  IF sourceIndex > 0 /\ targetIndex > 0
      THEN Splice([segments EXCEPT ![sourceIndex].content =
                     @ \o << " " >> \o segments[targetIndex].content],
                  targetIndex)
      ELSE segments

\* the loop of autoFix over results of the types exact and structural; the
\* switch has no case for structural
RECURSIVE FixLoop(_, _, _)
FixLoop(fixedSegments, duplicates, k) ==
  IF k > Len(duplicates) THEN fixedSegments
  ELSE LET dup == duplicates[k]
           targetIndex == FindIndex(fixedSegments, dup.target.segmentId)
       IN  IF targetIndex > 0 /\ dup.type = "exact"
           THEN FixLoop(mergeSegments(fixedSegments, dup), duplicates, k + 1)
           ELSE FixLoop(fixedSegments, duplicates, k + 1)

\* results that autoFix rewrites with rewriteSegment or replaceTemplatePhrases
Rewritable(duplicates) ==
  \E k \in 1..Len(duplicates) : duplicates[k].type \in {"similar", "template"}

\* autoFix(script), for the scripts in which detectDuplicates finds nothing
\* for rewriteSegment or replaceTemplatePhrases to rewrite
AutoFix ==
  LET duplicates == detectDuplicates(dedupConfig, scriptSegments)
      fixedSegments == FixLoop(scriptSegments, duplicates, 1)
  IN  /\ ~Rewritable(duplicates)
      /\ observed' = [ op |-> "fix", config |-> dedupConfig,
                       duplicates |-> duplicates,
                       segments |-> fixedSegments,
                       content |-> JoinContents(ContentsOf(fixedSegments)) ]
      /\ UNCHANGED << serviceVars, dedupVars, selectorVars >>

FixedInputs ==
  {SegmentsOf(contents) : contents \in UNION {[1..n -> FixContents] : n \in 0..MaxSegs}}

AutoFixInit ==
  /\ Constructed(DefaultConfig)
  /\ dedupConfig = DefaultDedupConfig
  /\ scriptSegments \in FixedInputs
  /\ SelectorFresh

AutoFixNext ==
  \/ AutoFix
  \/ \E newConfig \in DedupConfigs : UpdateDedupConfig(newConfig)

AutoFixSpec == AutoFixInit /\ [][AutoFixNext]_vars

\* the ids of the segments, in order
IdsOf(segments) == [k \in 1..Len(segments) |-> segments[k].id]

\* C30: with the exact strategy enabled, the script autoFix returns has no two
\* segments with the same normalized content (detectExactDuplicates finds
\* nothing in it), and the segments it keeps are in the order of the input.
C30_AutoFixRemovesExactDuplicates ==
  (observed.op = "fix" /\ "exact" \in observed.config.strategies) =>
    /\ detectExactDuplicates(observed.segments,
         [text \in Range(ContentsOf(observed.segments)) |-> normalizeText(text)]) = << >>
    /\ IdsOf(observed.segments)
         = SelectSeq(IdsOf(scriptSegments),
                     LAMBDA id : id \in Range(IdsOf(observed.segments)))

====
